---- MODULE Spec2Model ----
(***************************************************************************)
(* RLM MCP server: session registry, context store, chunk / index / query  *)
(* caches and the sandboxed expression engine, as a state machine.         *)
(*                                                                         *)
(* Strings are sequences of one-character strings.  A handler runs to      *)
(* completion before the next one starts (Node's single thread, no await   *)
(* inside a handler); a handler that performs several ordered side effects *)
(* is unfolded into the steps of `pending`, which are executed in order    *)
(* and during which no other handler is enabled.                           *)
(***************************************************************************)
EXTENDS Integers, Sequences, FiniteSets, TLC

\* ------------------------------------------------------------------ bounds
\* The program's caps, scaled down so that the model reaches them.
MAX_SESSIONS == 2
MAX_CONTEXT_SIZE == 2
MAX_SESSION_MEMORY == 277
MAX_VARIABLES_PER_SESSION == 2
MAX_VARIABLE_SIZE == 200
MAX_CONTEXTS_PER_SESSION == 2
MAX_EXECUTION_HISTORY == 1
SESSION_TIMEOUT_MS == 0
\* Bounds of the exploration.
MaxTime == 1
MaxIds == 3
MaxTableIds == 2
MaxDecomps == 2
MaxMainDecomps == 1
MaxSnapshots == 1
MaxResponses == 3
\* Scaled cache ceilings: ChunkCache.maxEntries / maxSizeBytes, INDEX_CONFIG.MAX_ENTRIES.
CACHE_MAX_ENTRIES == 2
CACHE_MAX_SIZE_BYTES == 400
INDEX_MAX_ENTRIES == 2
\* Scaled chunk ceiling: RESOURCE_LIMITS.MAX_CHUNKS.
MAX_CHUNKS == 2

\* ------------------------------------------------------- program constants
DEFAULT_CHUNK_SIZE == 10000
DEFAULT_OVERLAP == 200
DEFAULT_LINES_PER_CHUNK == 100
DEFAULT_LINES_OVERLAP == 10
MAX_ID_LENGTH == 100

TIMEOUT_MS == 30000
MAX_PATTERN_LENGTH == 500
MAX_SEARCH_RESULTS == 500

DefaultId == "default"
\* `session_${Date.now()}_${random}`: the random part has no fixed length, so
\* one id can be the beginning of another.
IdPool == <<"session_1_a", "session_1_ab", "session_2_a", "session_3_a">>

\* ---------------------------------------------------------------- strings
Min(a, b) == IF a < b THEN a ELSE b
Max(a, b) == IF a > b THEN a ELSE b

\* String.prototype.slice(start, end) with 0 <= start, on 0-based offsets.
Slice(str, start, end) ==
  LET e == Min(end, Len(str))
  IN  IF start >= e THEN <<>> ELSE SubSeq(str, start + 1, e)

\* String.prototype.slice(-n): the last n characters.
SliceLast(str, n) == Slice(str, Max(Len(str) - n, 0), Len(str))

CharCode(ch) ==
  CASE ch = "a" -> 97
    [] ch = "b" -> 98
    [] ch = " " -> 32
    [] ch = "\n" -> 10
    [] OTHER -> 63

IsSpace(ch) == ch \in {" ", "\n"}

\* ----------------------------------------------------- utils/security.ts
estimateStringMemory(str) == Len(str) * 2 + 40

\* Values are tagged records: numbers, strings, and the answer object
\* {content, ready} (keys "content" and "ready" are 7 and 5 characters).
estimateObjectMemory(obj) ==
  CASE obj.t = "num" -> 8
    [] obj.t = "str" -> estimateStringMemory(obj.v)
    [] obj.t = "ans" ->
         40 + (7 * 2 + 40) + estimateStringMemory(obj.content) + (5 * 2 + 40) + 8
    [] obj.t = "bigint" -> 8

\* validateContextId / validateVariableName, character by character.
Letters ==
  {"a", "b", "c", "d", "e", "f", "g", "h", "i", "j", "k", "l", "m",
   "n", "o", "p", "q", "r", "s", "t", "u", "v", "w", "x", "y", "z",
   "A", "B", "C", "D", "E", "F", "G", "H", "I", "J", "K", "L", "M",
   "N", "O", "P", "Q", "R", "S", "T", "U", "V", "W", "X", "Y", "Z"}

Digits == {"0", "1", "2", "3", "4", "5", "6", "7", "8", "9"}

CharAt(str, i) == SubSeq(str, i, i)

\* !input || input.trim().length === 0
Blank(str) == \A i \in 1..Len(str) : IsSpace(CharAt(str, i))

\* A variant without the pattern test.
validateContextIdAnyChars(contextId) == ~Blank(contextId) /\ Len(contextId) <= MAX_ID_LENGTH

validateContextId(contextId) ==
  /\ ~Blank(contextId)
  /\ Len(contextId) <= MAX_ID_LENGTH
  /\ \A i \in 1..Len(contextId) : CharAt(contextId, i) \in Letters \cup Digits \cup {"_", "-"}

validateVariableName(name) ==
  /\ ~Blank(name)
  /\ Len(name) <= MAX_ID_LENGTH
  /\ CharAt(name, 1) \in Letters \cup {"_"}
  /\ \A i \in 2..Len(name) : CharAt(name, i) \in Letters \cup Digits \cup {"_"}
  /\ name \notin {"__proto__", "constructor", "prototype"}

\* --------------------------------------------- SessionManager.analyzeContent
lineCount(content) == Cardinality({i \in 1..Len(content) : content[i] = "\n"}) + 1

wordCount(content) ==
  Cardinality({i \in 1..Len(content) :
                 /\ ~IsSpace(content[i])
                 /\ (i = 1 \/ IsSpace(content[i - 1]))})

\* Over the alphabet {a, b, space, newline} none of the JSON, XML, CSV,
\* Markdown, code or log rules can fire: the structure stays plain_text.
analyzeContent(content) ==
  [length |-> Len(content), lineCount |-> lineCount(content),
   wordCount |-> wordCount(content), structure |-> "plain_text"]

\* ------------------------------------------------------- ChunkCache hashing
\* A 32-bit word is kept as <<hi, lo>>, two 16-bit halves.
HashStep(h, code) ==
  LET t == h[2] * 31 + code
  IN  <<(h[1] * 31 + (t \div 65536)) % 65536, t % 65536>>

RECURSIVE HashFold(_, _)
HashFold(h, str) ==
  IF str = <<>> THEN h ELSE HashFold(HashStep(h, CharCode(Head(str))), Tail(str))

\* Math.abs of the signed reading of the word.
AbsWord(h) ==
  IF h[1] < 32768 THEN h
  ELSE IF h[2] = 0 THEN <<65536 - h[1], 0>> ELSE <<65535 - h[1], 65536 - h[2]>>

simpleHash(str) == AbsWord(HashFold(<<0, 0>>, str))

hashContent(content) ==
  LET prefix == Slice(content, 0, 100)
      suffix == SliceLast(content, 100)
      mid    == Len(content) \div 2
      sample == Slice(content, mid, mid + 100)
  IN  <<Len(content)>> \o simpleHash(prefix \o sample \o suffix)


\* ------------------------------------------- ContextProcessor.decompose
\* An option that the caller left out is -1; `x || d` takes d for it and for 0.
OrDefault(x, d) == IF x <= 0 THEN d ELSE x

RECURSIVE SizeLoop(_, _, _, _, _, _)
SizeLoop(content, chunkSize, step, offset, index, chunks) ==
  IF offset >= Len(content) THEN chunks
  ELSE LET end == Min(offset + chunkSize, Len(content))
           next == Append(chunks, [index |-> index,
                                   content |-> Slice(content, offset, end),
                                   startOffset |-> offset, endOffset |-> end])
       IN  IF index + 1 > MAX_CHUNKS THEN next
           ELSE SizeLoop(content, chunkSize, step, offset + step, index + 1, next)

decomposeBySize(content, chunkSize, overlap) ==
  LET step == chunkSize - overlap
  IN  IF step <= 0 THEN [ok |-> FALSE, error |-> "INVALID_INPUT", chunks |-> <<>>]
      ELSE [ok |-> TRUE, error |-> "",
            chunks |-> SizeLoop(content, chunkSize, step, 0, 0, <<>>)]

\* ------------------------------------------------- regular expressions
\* A pattern is the sequence of its characters. DANGEROUS_PATTERNS, in order:
\*   /(\+\+|\*\*|\?\?)/                      a doubled quantifier
\*   /\([^)]*[\+\*][^)]*\)[\+\*]/            a quantified group holding a quantifier
\*   /\([^|)]*\|[^|)]*\|[^|)]*\|[^|)]*\|/    a group with four alternations
\*   /\([^)]*\.\*[^)]*\)\+/, /\([^)]*\.\+[^)]*\)\+/   a repeated group holding .* or .+
Dangerous(p) ==
  LET group(i, k) == /\ i < k /\ p[i] = "(" /\ p[k] = ")"
                     /\ \A m \in (i + 1)..(k - 1) : p[m] # ")"
      doubled == \E i \in 1..(Len(p) - 1) : p[i] \in {"+", "*", "?"} /\ p[i + 1] = p[i]
      quantified == \E i, j, k \in 1..(Len(p) - 1) :
                      /\ group(i, k) /\ i < j /\ j < k
                      /\ p[j] \in {"+", "*"}
                      /\ p[k + 1] \in {"+", "*"}
      alternations == \E i, k \in 1..Len(p) :
                        /\ i < k /\ p[i] = "(" /\ p[k] = "|"
                        /\ \A m \in (i + 1)..(k - 1) : p[m] # ")"
                        /\ Cardinality({m \in (i + 1)..k : p[m] = "|"}) = 4
      wildcard == \E i, j, k \in 1..(Len(p) - 1) :
                    /\ group(i, k) /\ i < j /\ j + 1 < k
                    /\ p[j] = "." /\ p[j + 1] \in {"*", "+"}
                    /\ p[k + 1] = "+"
  IN  doubled \/ quantified \/ alternations \/ wildcard

RECURSIVE Trim(_)
Trim(str) ==
  IF str = <<>> THEN str
  ELSE IF IsSpace(Head(str)) THEN Trim(Tail(str))
  ELSE IF IsSpace(str[Len(str)]) THEN Trim(SubSeq(str, 1, Len(str) - 1))
  ELSE str

\* The nesting depth of parentheses before each character and at the end.
RECURSIVE Depths(_, _)
Depths(p, depth) ==
  IF p = <<>> THEN <<depth>>
  ELSE <<depth>> \o Depths(Tail(p), CASE Head(p) = "(" -> depth + 1
                                      [] Head(p) = ")" -> depth - 1
                                      [] OTHER -> depth)

\* No parenthesis closes one that was not opened, and none stays open.
Balanced(depths) ==
  /\ \A i \in 1..Len(depths) : depths[i] >= 0
  /\ depths[Len(depths)] = 0

\* new RegExp(pattern) on the patterns of the model: it throws a SyntaxError
\* for an unbalanced parenthesis and for a quantifier with nothing to repeat.
Compiles(p) ==
  /\ Balanced(Depths(p, 0))
  /\ \A i \in 1..Len(p) :
       p[i] \in {"+", "*", "?"} =>
         \/ i > 1 /\ p[i - 1] \notin {"(", "|", "+", "*", "?"}
         \/ i > 1 /\ i < Len(p) /\ p[i - 1] = "(" /\ p[i] = "?" /\ p[i + 1] = "="

\* validateRegexPattern; `compiled` tells whether new RegExp(pattern) was reached.
validateRegexPattern(pattern) ==
  IF Len(pattern) > MAX_PATTERN_LENGTH
  THEN [valid |-> FALSE, error |-> "Pattern too long", compiled |-> FALSE]
  ELSE IF Len(Trim(pattern)) = 0
  THEN [valid |-> FALSE, error |-> "Empty pattern", compiled |-> FALSE]
  ELSE IF Dangerous(pattern)
  THEN [valid |-> FALSE, error |-> "Potentially dangerous pattern (ReDoS risk)",
        compiled |-> FALSE]
  ELSE IF ~Compiles(pattern)
  THEN [valid |-> FALSE, error |-> "Invalid regex syntax", compiled |-> TRUE]
  ELSE [valid |-> TRUE, error |-> "", compiled |-> TRUE]

\* The patterns run are sequences of literal characters, each of which may be
\* repeated with "+" and is then followed by a different character (the default
\* separator \n\n+ is one); a group (x+)+ matches what x+ matches; a lookahead
\* (?=(x)) holds where the next character is x, takes no character and captures x.
RECURSIVE Ungroup(_)
Ungroup(p) ==
  IF p = <<>> THEN p
  ELSE IF Len(p) >= 5 /\ p[1] = "(" /\ p[3] = "+" /\ p[4] = ")" /\ p[5] = "+"
  THEN <<p[2], "+">> \o Ungroup(SubSeq(p, 6, Len(p)))
  ELSE <<Head(p)>> \o Ungroup(Tail(p))

\* The number of characters ch from offset k on.
RECURSIVE RunLength(_, _, _)
RunLength(content, k, ch) ==
  IF k < Len(content) /\ content[k + 1] = ch THEN 1 + RunLength(content, k + 1, ch)
  ELSE 0

\* p starts with a lookahead that captures one literal character: (?=(x))
Lookahead(p) ==
  /\ Len(p) >= 7
  /\ SubSeq(p, 1, 4) = <<"(", "?", "=", "(">>
  /\ SubSeq(p, 6, 7) = <<")", ")">>

\* What the capture groups of p hold after a match, in order.
RECURSIVE Captured(_)
Captured(p) ==
  IF p = <<>> THEN <<>>
  ELSE IF Lookahead(p) THEN <<<<p[5]>>>> \o Captured(SubSeq(p, 8, Len(p)))
  ELSE Captured(Tail(p))

\* The offset at which a match of p that starts at offset k ends, -1 for none;
\* a character may be followed by "+", "*" or "?".
RECURSIVE MatchEnd(_, _, _)
MatchEnd(content, k, p) ==
  IF p = <<>> THEN k
  ELSE IF Lookahead(p)
  THEN IF k < Len(content) /\ content[k + 1] = p[5]
       THEN MatchEnd(content, k, SubSeq(p, 8, Len(p)))
       ELSE -1
  ELSE IF Len(p) >= 2 /\ p[2] \in {"+", "*", "?"}
  THEN IF p[2] = "+" /\ RunLength(content, k, p[1]) = 0 THEN -1
       ELSE MatchEnd(content,
                     k + (IF p[2] = "?" THEN Min(RunLength(content, k, p[1]), 1)
                          ELSE RunLength(content, k, p[1])),
                     SubSeq(p, 3, Len(p)))
  ELSE IF k < Len(content) /\ content[k + 1] = p[1]
  THEN MatchEnd(content, k + 1, Tail(p))
  ELSE -1

\* regex.exec in a loop with the g flag: the matches of the ungrouped pattern p
\* from offset i on, left to right, each as [index, length]; end is the offset
\* at which the match that starts at i ends.
RECURSIVE ExecAll(_, _, _)
RECURSIVE ExecNext(_, _, _, _)
ExecNext(content, i, p, end) ==
  IF end > i THEN <<[index |-> i, length |-> end - i]>> \o ExecAll(content, end, p)
  ELSE ExecAll(content, i + 1, p)

ExecAll(content, i, p) ==
  IF i >= Len(content) THEN <<>>
  ELSE ExecNext(content, i, p, MatchEnd(content, i, p))

\* The matched texts with their offsets, at most maxResults of them.
Found(content, ms, maxResults) ==
  [j \in 1..Min(Len(ms), maxResults) |->
     [match |-> Slice(content, ms[j].index, ms[j].index + ms[j].length),
      index |-> ms[j].index]]

\* searchSync: an empty result for a pattern that fails validation; `ran` tells
\* whether the pattern was compiled and run against the content.
searchSync(content, pattern, maxResults) ==
  IF ~validateRegexPattern(pattern).valid THEN [results |-> <<>>, ran |-> FALSE]
  ELSE [results |-> Found(content, ExecAll(content, 0, Ungroup(pattern)), maxResults),
        ran |-> TRUE]

\* ------------------------------------------------------- the scan loops
\* regex.exec(text) of the ungrouped pattern p from offset `from`: the leftmost
\* match, which may be empty.
regexExec(text, from, p) ==
  IF \E k \in from..Len(text) : MatchEnd(text, k, p) >= 0
  THEN LET k == CHOOSE k \in from..Len(text) :
                  /\ MatchEnd(text, k, p) >= 0
                  /\ \A j \in from..(k - 1) : MatchEnd(text, j, p) < 0
       IN  [found |-> TRUE, index |-> k, end |-> MatchEnd(text, k, p)]
  ELSE [found |-> FALSE, index |-> 0, end |-> 0]

\* A variant without the chunk-count guard.
ChunkCountGuardOff(r) == r

\* A variant that never moves lastIndex past an empty match.
zeroLengthAdvanceNone(m) == 0

\* if (match[0].length === 0) regex.lastIndex++
zeroLengthAdvance(m) == IF m.end = m.index THEN 1 ELSE 0

\* One pass of the while loop of searchSync and of the sandbox's findAll (which
\* always scans with the g flag): m is what regex.exec returned; the loop is
\* cut off, not done, when `fuel` passes were not enough.
RECURSIVE searchSyncLoop(_, _, _, _, _, _, _)
searchSyncPass(text, p, global, maxResults, lastIndex, results, fuel, m) ==
  IF ~m.found \/ Len(results) >= maxResults THEN [done |-> TRUE, results |-> results]
  ELSE searchSyncLoop(text, p, global, maxResults,
                      (IF global THEN m.end ELSE lastIndex) + zeroLengthAdvance(m),
                      Append(results, [match |-> Slice(text, m.index, m.end),
                                       index |-> m.index]),
                      fuel - 1)

searchSyncLoop(text, p, global, maxResults, lastIndex, results, fuel) ==
  IF fuel = 0 THEN [done |-> FALSE, results |-> results]
  ELSE searchSyncPass(text, p, global, maxResults, lastIndex, results, fuel,
                      regexExec(text, IF global THEN lastIndex ELSE 0, p))

\* One pass of the while loop of safeRegexSearch: regexLast is regex.lastIndex
\* after the exec that returned m, lastIndex the loop's own variable.
RECURSIVE safeRegexSearchLoop(_, _, _, _, _, _, _, _)
safeRegexSearchPass(text, p, global, maxMatches, regexLast, lastIndex, results, fuel, m) ==
  IF ~m.found THEN [done |-> TRUE, results |-> results]
  ELSE IF regexLast = lastIndex
  THEN safeRegexSearchLoop(text, p, global, maxMatches, regexLast + 1, lastIndex,
                           results, fuel - 1)
  ELSE IF Len(results) + 1 >= maxMatches \/ ~global
  THEN [done |-> TRUE,
        results |-> Append(results, [match |-> Slice(text, m.index, m.end),
                                     index |-> m.index])]
  ELSE safeRegexSearchLoop(text, p, global, maxMatches, regexLast, regexLast,
                           Append(results, [match |-> Slice(text, m.index, m.end),
                                            index |-> m.index]),
                           fuel - 1)

safeRegexSearchLoop(text, p, global, maxMatches, regexLast, lastIndex, results, fuel) ==
  IF fuel = 0 THEN [done |-> FALSE, results |-> results]
  ELSE LET m == regexExec(text, IF global THEN regexLast ELSE 0, p)
       IN  safeRegexSearchPass(text, p, global, maxMatches,
                               IF global /\ m.found THEN m.end ELSE regexLast,
                               lastIndex, results, fuel, m)

\* The three scans from their start, for a pattern that passed validation.
scan(kind, text, pattern, global, cap, fuel) ==
  CASE kind = "searchSync" ->
         searchSyncLoop(text, Ungroup(pattern), global, cap, 0, <<>>, fuel)
    [] kind = "findAll" ->
         searchSyncLoop(text, Ungroup(pattern), TRUE, 1000, 0, <<>>, fuel)
    [] kind = "safeRegexSearch" ->
         safeRegexSearchLoop(text, Ungroup(pattern), global, cap, 0, -1, <<>>, fuel)

\* content.split(regex) from offset `from` on: the parts between the matches
\* ms, each match followed by what its capture groups hold.
RECURSIVE SplitParts(_, _, _, _)
SplitParts(content, from, ms, captured) ==
  IF ms = <<>> THEN <<Slice(content, from, Len(content))>>
  ELSE <<Slice(content, from, ms[1].index)>> \o captured
       \o SplitParts(content, ms[1].index + ms[1].length, Tail(ms), captured)

\* content.indexOf(part, offset)
IndexOf(content, part, offset) ==
  IF \E i \in offset..(Len(content) - Len(part)) : Slice(content, i, i + Len(part)) = part
  THEN CHOOSE i \in offset..(Len(content) - Len(part)) :
         /\ Slice(content, i, i + Len(part)) = part
         /\ \A j \in offset..(i - 1) : Slice(content, j, j + Len(part)) # part
  ELSE -1

\* The loop of decomposeByRegex: a chunk for every part that is not blank.
RECURSIVE RegexLoop(_, _, _, _, _)
RegexLoop(content, parts, offset, index, chunks) ==
  IF parts = <<>> THEN chunks
  ELSE IF Trim(Head(parts)) = <<>>
  THEN RegexLoop(content, Tail(parts), offset, index, chunks)
  ELSE LET actualStart == IndexOf(content, Head(parts), offset)
           startOffset == IF actualStart >= 0 THEN actualStart ELSE offset
           next == Append(chunks, [index |-> index, content |-> Trim(Head(parts)),
                                   startOffset |-> startOffset,
                                   endOffset |-> startOffset + Len(Head(parts))])
       IN  IF index + 1 > MAX_CHUNKS THEN next
           ELSE RegexLoop(content, Tail(parts), startOffset + Len(Head(parts)),
                          index + 1, next)

\* decomposeByRegex: INVALID_REGEX for a pattern that fails validation; `ran`
\* tells whether the pattern was compiled and run against the content.
decomposeByRegex(content, pattern) ==
  IF ~validateRegexPattern(pattern).valid
  THEN [ok |-> FALSE, error |-> "INVALID_REGEX", chunks |-> <<>>, ran |-> FALSE]
  ELSE [ok |-> TRUE, error |-> "",
        chunks |-> RegexLoop(content,
                             SplitParts(content, 0,
                                        ExecAll(content, 0, Ungroup(pattern)),
                                        Captured(pattern)),
                             0, 0, <<>>),
        ran |-> TRUE]

\* ---- by_lines
\* lineOffsets[i]: the offset at which line i (from 0) of `lines` starts.
RECURSIVE lineOffsets(_, _)
lineOffsets(lines, i) ==
  IF i = 0 THEN 0 ELSE lineOffsets(lines, i - 1) + Len(lines[i]) + 1

\* lines.join('\n')
RECURSIVE JoinLines(_)
JoinLines(lines) ==
  IF Len(lines) = 0 THEN <<>>
  ELSE IF Len(lines) = 1 THEN lines[1]
  ELSE lines[1] \o <<"\n">> \o JoinLines(Tail(lines))

RECURSIVE LinesLoop(_, _, _, _, _, _, _)
LinesLoop(content, lines, linesPerChunk, advanceLines, lineIndex, index, chunks) ==
  IF lineIndex >= Len(lines) THEN chunks
  ELSE LET endLineIndex == Min(lineIndex + linesPerChunk, Len(lines))
           next == Append(chunks,
                          [index |-> index,
                           content |-> JoinLines(SubSeq(lines, lineIndex + 1, endLineIndex)),
                           startOffset |-> lineOffsets(lines, lineIndex),
                           endOffset |-> IF lineIndex + linesPerChunk >= Len(lines)
                                         THEN Len(content)
                                         ELSE lineOffsets(lines, endLineIndex)])
       IN  IF index + 1 > MAX_CHUNKS THEN next
           ELSE LinesLoop(content, lines, linesPerChunk, advanceLines,
                          lineIndex + advanceLines, index + 1, next)

decomposeByLines(content, linesPerChunk, overlapLines) ==
  [ok |-> TRUE, error |-> "",
   chunks |-> LinesLoop(content,
                        SplitParts(content, 0, ExecAll(content, 0, <<"\n">>), <<>>),
                        linesPerChunk, Max(1, linesPerChunk - overlapLines), 0, 0, <<>>)]

\* ---- by_paragraphs: the loop is that of decomposeByRegex on /\n\n+/
decomposeByParagraphs(content) ==
  [ok |-> TRUE, error |-> "",
   chunks |-> RegexLoop(content,
                        SplitParts(content, 0, ExecAll(content, 0, <<"\n", "\n", "+">>),
                                   <<>>),
                        0, 0, <<>>)]

\* ---- by_sections
\* The offset of the end of the line that holds offset k.
RECURSIVE LineEnd(_, _)
LineEnd(content, k) ==
  IF k >= Len(content) \/ content[k + 1] = "\n" THEN k ELSE LineEnd(content, k + 1)

\* The number of white-space characters from offset k on.
RECURSIVE SpaceRun(_, _)
SpaceRun(content, k) ==
  IF k < Len(content) /\ IsSpace(content[k + 1]) THEN 1 + SpaceRun(content, k + 1) ELSE 0

\* /^(#{1,6})\s+(.+)$/m at offset k: the offset at which the header that starts
\* at k ends, -1 for none; `hashes` are the #s at k and `spaces` the white
\* space after them. The title starts at the first character after the white
\* space or, at the end of the text, is the last white space that is no newline.
HeaderEnd(content, k, hashes, spaces) ==
  IF ~(k = 0 \/ content[k] = "\n") \/ hashes < 1 \/ hashes > 6 \/ spaces < 1 THEN -1
  ELSE IF k + hashes + spaces < Len(content)
  THEN LineEnd(content, k + hashes + spaces)
  ELSE IF spaces >= 2 /\ content[Len(content)] # "\n" THEN Len(content)
  ELSE -1

\* sectionPattern.exec in a loop: the offsets at which headers start, from k on.
RECURSIVE Headers(_, _)
HeadersNext(content, k, end) ==
  IF end >= 0 THEN <<k>> \o Headers(content, end) ELSE Headers(content, k + 1)

Headers(content, k) ==
  IF k >= Len(content) THEN <<>>
  ELSE HeadersNext(content, k,
                   HeaderEnd(content, k, RunLength(content, k, "#"),
                             SpaceRun(content, k + RunLength(content, k, "#"))))

RECURSIVE SectionsLoop(_, _, _, _, _)
SectionsLoop(content, matches, i, index, sections) ==
  IF i > Len(matches) THEN sections
  ELSE LET endOffset == IF i < Len(matches) THEN matches[i + 1] ELSE Len(content)
           next == Append(sections,
                          [index |-> index,
                           content |-> Trim(Slice(content, matches[i], endOffset)),
                           startOffset |-> matches[i], endOffset |-> endOffset])
       IN  IF index + 1 > MAX_CHUNKS THEN next
           ELSE SectionsLoop(content, matches, i + 1, index + 1, next)

\* The chunks of decomposeBySections for the header offsets `matches`.
Sections(content, matches) ==
  IF matches = <<>>
  THEN <<[index |-> 0, content |-> content, startOffset |-> 0,
          endOffset |-> Len(content)]>>
  ELSE IF matches[1] > 0 /\ Trim(Slice(content, 0, matches[1])) # <<>>
  THEN SectionsLoop(content, matches, 1, 1,
                    <<[index |-> 0, content |-> Trim(Slice(content, 0, matches[1])),
                       startOffset |-> 0, endOffset |-> matches[1]]>>)
  ELSE SectionsLoop(content, matches, 1, 0, <<>>)

decomposeBySections(content) ==
  [ok |-> TRUE, error |-> "", chunks |-> Sections(content, Headers(content, 0))]

\* ---- by_sentences
\* The number of characters from offset k on that are (terminator = TRUE) or
\* are not (FALSE) one of . ! ?
RECURSIVE TerminatorRun(_, _, _)
TerminatorRun(content, k, terminator) ==
  IF k < Len(content) /\ (content[k + 1] \in {".", "!", "?"}) = terminator
  THEN 1 + TerminatorRun(content, k + 1, terminator)
  ELSE 0

\* /[^.!?]+[.!?]+[\s]*/ at offset k: the offset at which the sentence that starts
\* at k ends, -1 for none; `words` is the run of other characters at k.
SentenceEnd(content, k, words) ==
  IF words = 0 \/ TerminatorRun(content, k + words, TRUE) = 0 THEN -1
  ELSE k + words + TerminatorRun(content, k + words, TRUE)
       + SpaceRun(content, k + words + TerminatorRun(content, k + words, TRUE))

\* sentencePattern.exec in a loop from offset k on, with the chunks so far.
RECURSIVE SentencesLoop(_, _, _, _)
SentencesNext(content, k, index, sentences, end) ==
  IF end < 0 THEN SentencesLoop(content, k + 1, index, sentences)
  ELSE IF Trim(Slice(content, k, end)) = <<>>
  THEN IF index > MAX_CHUNKS THEN sentences
       ELSE SentencesLoop(content, end, index, sentences)
  ELSE IF index + 1 > MAX_CHUNKS
  THEN Append(sentences, [index |-> index, content |-> Trim(Slice(content, k, end)),
                          startOffset |-> k, endOffset |-> end])
  ELSE SentencesLoop(content, end, index + 1,
                     Append(sentences, [index |-> index,
                                        content |-> Trim(Slice(content, k, end)),
                                        startOffset |-> k, endOffset |-> end]))

SentencesLoop(content, k, index, sentences) ==
  IF k >= Len(content) THEN sentences
  ELSE SentencesNext(content, k, index, sentences,
                     SentenceEnd(content, k, TerminatorRun(content, k, FALSE)))

\* The fallback for a text without a sentence.
SentencesOrSingle(content, sentences) ==
  IF sentences = <<>> /\ Trim(content) # <<>>
  THEN <<[index |-> 0, content |-> Trim(content), startOffset |-> 0,
          endOffset |-> Len(content)]>>
  ELSE sentences

decomposeBySentences(content) ==
  [ok |-> TRUE, error |-> "",
   chunks |-> SentencesOrSingle(content, SentencesLoop(content, 0, 0, <<>>))]

\* An option by name; -1 for one the caller left out.
Option(options, field) == IF field \in DOMAIN options THEN options[field] ELSE -1

\* options.pattern || '\n\n+'
PatternOrDefault(options) ==
  IF "pattern" \in DOMAIN options /\ options.pattern # <<>> THEN options.pattern
  ELSE <<"\n", "\n", "+">>

\* if (chunks.length > MAX_CHUNKS) throw Errors.chunkLimitExceeded(...)
ChunkCountGuard(r) ==
  IF r.ok /\ Len(r.chunks) > MAX_CHUNKS
  THEN [ok |-> FALSE, error |-> "CHUNK_LIMIT_EXCEEDED", chunks |-> <<>>]
  ELSE r

\* The strategy switch and the chunk-count guard, without the cache.
decomposeUncached(content, strategy, options) ==
  ChunkCountGuard(
    CASE strategy = "fixed_size" ->
           decomposeBySize(content,
                           OrDefault(Option(options, "chunkSize"), DEFAULT_CHUNK_SIZE),
                           OrDefault(Option(options, "overlap"), DEFAULT_OVERLAP))
      [] strategy = "by_lines" ->
           decomposeByLines(content,
                            OrDefault(Option(options, "linesPerChunk"),
                                      DEFAULT_LINES_PER_CHUNK),
                            OrDefault(Option(options, "overlap"), DEFAULT_LINES_OVERLAP))
      [] strategy = "by_paragraphs" -> decomposeByParagraphs(content)
      [] strategy = "by_sections" -> decomposeBySections(content)
      [] strategy = "by_regex" -> decomposeByRegex(content, PatternOrDefault(options))
      [] strategy = "by_sentences" -> decomposeBySentences(content)
      [] OTHER -> decomposeBySize(content, DEFAULT_CHUNK_SIZE, DEFAULT_OVERLAP))

\* ------------------------------------------------------- cache keys
\* JSON.stringify(options, sortedKeys) keeps exactly the fields that are
\* defined: the key's options part is the set of (field, value) pairs given.
optionsStr(options) ==
  {<<f, options[f]>> : f \in {g \in DOMAIN options : g = "pattern" \/ options[g] >= 0}}

\* The four parts of `${sessionId}:${contextId}:${strategy}:${optionsStr}`.
generateKey(contextId, sessionId, strategy, options) ==
  <<sessionId, contextId, strategy, optionsStr(options)>>

\* The key as the string the Map is keyed on.
KeyText(key) == key[1] \o ":" \o key[2] \o ":" \o key[3] \o ":" \o ToString(key[4])

\* String.prototype.startsWith
startsWith(str, prefix) ==
  Len(prefix) <= Len(str) /\ SubSeq(str, 1, Len(prefix)) = prefix

\* A variant whose prefix ends with the context id.
HasContextPrefixOpen(key, contextId, sessionId) ==
  startsWith(KeyText(key), sessionId \o ":" \o contextId)

\* key.startsWith(`${sessionId}:${contextId}:`) and key.startsWith(`${sessionId}:`)
HasContextPrefix(key, contextId, sessionId) ==
  startsWith(KeyText(key), sessionId \o ":" \o contextId \o ":")

HasSessionPrefix(key, sessionId) == startsWith(KeyText(key), sessionId \o ":")


\* ------------------------------------------------------------- sequences
\* The position of the first element of seq with the given key, or 0.
KeyIndex(seq, key) ==
  LET hits == {i \in 1..Len(seq) : seq[i].key = key}
  IN  IF hits = {} THEN 0 ELSE CHOOSE i \in hits : \A j \in hits : i <= j

RemoveAt(seq, i) == SubSeq(seq, 1, i - 1) \o SubSeq(seq, i + 1, Len(seq))

RECURSIVE SumSizes(_)
SumSizes(seq) == IF seq = <<>> THEN 0 ELSE Head(seq).sizeBytes + SumSizes(Tail(seq))

\* The first entry with the least lastAccessedAt (Map order, strict <), or 0.
LruIndex(seq) ==
  IF seq = <<>> THEN 0
  ELSE CHOOSE i \in 1..Len(seq) :
         /\ \A j \in 1..Len(seq) : seq[i].lastAccessedAt <= seq[j].lastAccessedAt
         /\ \A j \in 1..(i - 1) : seq[j].lastAccessedAt > seq[i].lastAccessedAt

\* ------------------------------------------------------------ ChunkCache
\* The ChunkCache object: its Map in insertion order, and its byte counter.
RECURSIVE SumChunkSizes(_)
SumChunkSizes(chunks) ==
  IF chunks = <<>> THEN 0
  ELSE Len(Head(chunks).content) * 2 + 100 + SumChunkSizes(Tail(chunks))

estimateChunksSize(chunks) == SumChunkSizes(chunks)

ChunkEvictLRU(cc) ==
  LET i == LruIndex(cc.cache)
  IN  IF i = 0 THEN cc
      ELSE [cache |-> RemoveAt(cc.cache, i),
            totalSizeBytes |-> cc.totalSizeBytes - cc.cache[i].sizeBytes]

RECURSIVE EvictEntries(_)
EvictEntries(cc) ==
  IF Len(cc.cache) >= CACHE_MAX_ENTRIES /\ Len(cc.cache) > 0
  THEN EvictEntries(ChunkEvictLRU(cc)) ELSE cc

RECURSIVE EvictBytes(_, _)
EvictBytes(cc, incoming) ==
  IF cc.totalSizeBytes + incoming > CACHE_MAX_SIZE_BYTES /\ Len(cc.cache) > 0
  THEN EvictBytes(ChunkEvictLRU(cc), incoming) ELSE cc

evictIfNeeded(cc, incomingSizeBytes) == EvictBytes(EvictEntries(cc), incomingSizeBytes)

\* get: a miss, a stale-hash drop (also a miss), or a hit that refreshes the entry.
ChunkCacheGet(cc, key, contentHash, time) ==
  LET i == KeyIndex(cc.cache, key)
  IN  IF i = 0 THEN [cc |-> cc, hit |-> FALSE, chunks |-> <<>>]
      ELSE IF cc.cache[i].contentHash # contentHash
      THEN [cc |-> [cache |-> RemoveAt(cc.cache, i),
                    totalSizeBytes |-> cc.totalSizeBytes - cc.cache[i].sizeBytes],
            hit |-> FALSE, chunks |-> <<>>]
      ELSE [cc |-> [cc EXCEPT !.cache[i].lastAccessedAt = time],
            hit |-> TRUE, chunks |-> cc.cache[i].chunks]

\* clear
ChunkCacheClear(cc) == [cache |-> <<>>, totalSizeBytes |-> 0]

\* A variant of set that keeps the bytes of the entry it replaces.
ChunkCacheSetKeepOld(cc, key, contentHash, chunks, time) ==
  LET sizeBytes == estimateChunksSize(chunks)
      ev == evictIfNeeded(cc, sizeBytes)
      i == KeyIndex(ev.cache, key)
      entry == [key |-> key, chunks |-> chunks, contentHash |-> contentHash,
                lastAccessedAt |-> time, sizeBytes |-> sizeBytes]
  IN  [cache |-> IF i = 0 THEN Append(ev.cache, entry)
                 ELSE [ev.cache EXCEPT ![i] = entry],
       totalSizeBytes |-> ev.totalSizeBytes + sizeBytes]

ChunkCacheSet(cc, key, contentHash, chunks, time) ==
  LET sizeBytes == estimateChunksSize(chunks)
      ev == evictIfNeeded(cc, sizeBytes)
      i == KeyIndex(ev.cache, key)
      entry == [key |-> key, chunks |-> chunks, contentHash |-> contentHash,
                lastAccessedAt |-> time, sizeBytes |-> sizeBytes]
  IN  IF i = 0
      THEN [cache |-> Append(ev.cache, entry),
            totalSizeBytes |-> ev.totalSizeBytes + sizeBytes]
      ELSE [cache |-> [ev.cache EXCEPT ![i] = entry],
            totalSizeBytes |-> ev.totalSizeBytes - ev.cache[i].sizeBytes + sizeBytes]

\* A variant that drops nothing.
ChunkInvalidateNothing(cc, contextId, sessionId) == cc

ChunkInvalidateContext(cc, contextId, sessionId) ==
  LET keep(e) == ~HasContextPrefix(e.key, contextId, sessionId)
      kept == SelectSeq(cc.cache, keep)
  IN  [cache |-> kept,
       totalSizeBytes |-> cc.totalSizeBytes - (SumSizes(cc.cache) - SumSizes(kept))]

ChunkInvalidateSession(cc, sessionId) ==
  LET keep(e) == ~HasSessionPrefix(e.key, sessionId)
      kept == SelectSeq(cc.cache, keep)
  IN  [cache |-> kept,
       totalSizeBytes |-> cc.totalSizeBytes - (SumSizes(cc.cache) - SumSizes(kept))]


\* ------------------------------------------------------------ ChunkIndex
IsWordChar(ch) == ch \in {"a", "b"}

\* text.toLowerCase().match(/[\p{L}\p{N}]+/gu): the maximal runs of letters
\* and digits (the alphabet has lower-case letters only).
RECURSIVE TokenLoop(_, _, _)
TokenLoop(text, run, terms) ==
  IF text = <<>> THEN (IF run = <<>> THEN terms ELSE Append(terms, run))
  ELSE IF IsWordChar(Head(text)) THEN TokenLoop(Tail(text), Append(run, Head(text)), terms)
  ELSE TokenLoop(Tail(text), <<>>, IF run = <<>> THEN terms ELSE Append(terms, run))

tokenizeText(text) == TokenLoop(text, <<>>, <<>>)

TermFreq(terms, term) == Cardinality({i \in 1..Len(terms) : terms[i] = term})

TermSet(terms) == {terms[i] : i \in 1..Len(terms)}

\* The 8 option fields the index key keeps; any other field is dropped.
normalizeOptions(options) ==
  [f \in DOMAIN options \cap {"chunkSize", "overlap", "linesPerChunk", "tokensPerChunk",
                              "tokenOverlap", "pattern", "model", "encoding"}
     |-> options[f]]

IndexKey(contextId, sessionId, strategy, options) ==
  generateKey(contextId, sessionId, strategy, normalizeOptions(options))

\* buildIndex: document lengths, postings in chunk order, per-chunk metadata.
\* avgDocLength is the quotient totalLength / chunkCount, kept as its two terms.
buildIndex(contentHash, chunks, time) ==
  LET toks == [i \in 1..Len(chunks) |-> tokenizeText(chunks[i].content)]
      allTerms == UNION {TermSet(toks[i]) : i \in 1..Len(chunks)}
      holds(term) == LET has(c) == term \in TermSet(tokenizeText(c.content))
                     IN  SelectSeq(chunks, has)
      sumLen(S) == LET RECURSIVE go(_)
                       go(n) == IF n = 0 THEN 0 ELSE Len(toks[n]) + go(n - 1)
                   IN  go(S)
  IN  [contentHash |-> contentHash,
       lastAccessedAt |-> time,
       chunkCount |-> Len(chunks),
       totalLength |-> sumLen(Len(chunks)),
       docLengths |-> [i \in 1..Len(chunks) |-> Len(toks[i])],
       postings |-> [term \in allTerms |->
                       LET hs == holds(term)
                       IN  [j \in 1..Len(hs) |->
                              [docId |-> hs[j].index,
                               tf |-> TermFreq(tokenizeText(hs[j].content), term)]]],
       chunkMetadata |-> [i \in 1..Len(chunks) |->
                            [index |-> chunks[i].index,
                             startOffset |-> chunks[i].startOffset,
                             endOffset |-> chunks[i].endOffset,
                             length |-> Len(chunks[i].content)]]]

\* A variant that stores without evicting.
setEntryKeepAll(cache, key, entry) == Append(cache, [key |-> key] @@ entry)

IndexEvictLRU(cache) ==
  LET i == LruIndex(cache) IN IF i = 0 THEN cache ELSE RemoveAt(cache, i)

setEntry(cache, key, entry) ==
  LET ev == IF Len(cache) >= INDEX_MAX_ENTRIES THEN IndexEvictLRU(cache) ELSE cache
      i == KeyIndex(ev, key)
      e == [key |-> key] @@ entry
  IN  IF i = 0 THEN Append(ev, e) ELSE [ev EXCEPT ![i] = e]

\* getOrBuildIndex: a hit needs the same key and the same content hash.
getOrBuildIndex(cache, contextId, sessionId, strategy, options, content, chunks, time) ==
  LET contentHash == hashContent(content)
      key == IndexKey(contextId, sessionId, strategy, options)
      i == KeyIndex(cache, key)
  IN  IF i # 0 /\ cache[i].contentHash = contentHash
      THEN [cache |-> [cache EXCEPT ![i].lastAccessedAt = time], entry |-> cache[i]]
      ELSE LET dropped == IF i # 0 THEN RemoveAt(cache, i) ELSE cache
               entry == buildIndex(contentHash, chunks, time)
           IN  [cache |-> setEntry(dropped, key, entry), entry |-> [key |-> key] @@ entry]

\* rank with top_k >= chunkCount and no min_score: idf > 0 and the tf factor
\* > 0, so a chunk scores > 0 exactly when a query term has a posting for it.
\* The set of returned chunk indices (their order by score is not kept here).
rankedIndices(entry, query) ==
  LET queryTerms == TermSet(tokenizeText(query))
  IN  IF queryTerms = {} \/ entry.chunkCount = 0 THEN {}
      ELSE {d \in 0..(entry.chunkCount - 1) :
              \E term \in queryTerms \cap DOMAIN entry.postings :
                \E j \in 1..Len(entry.postings[term]) : entry.postings[term][j].docId = d}

\* ---- BM25
\* Math.log(1 + (chunkCount - df + 0.5) / (df + 0.5)) in units of 0.00001,
\* rounded down, for the chunk counts of the model.
Idf(chunkCount, df) ==
  CASE chunkCount = 1 /\ df = 1 -> 28768
    [] chunkCount = 2 /\ df = 1 -> 69314
    [] chunkCount = 2 /\ df = 2 -> 18232
    [] chunkCount = 3 /\ df = 1 -> 98082
    [] chunkCount = 3 /\ df = 2 -> 47000
    [] chunkCount = 3 /\ df = 3 -> 13353
    [] chunkCount = 4 /\ df = 1 -> 120397
    [] chunkCount = 4 /\ df = 2 -> 69314
    [] chunkCount = 4 /\ df = 3 -> 35667
    [] chunkCount = 4 /\ df = 4 -> 10536

\* idf * ((tf * (k1 + 1)) / (tf + k1 * (1 - b + b * (docLen / avgDocLength)))) * qf
\* with k1 = 1.5, b = 0.75 and avgDocLength = totalLength / chunkCount: the
\* fraction times 8 * totalLength above and below, in units of 0.00001.
termScore(entry, posting, idf, qf) ==
  (idf * qf * 20 * entry.totalLength * posting.tf)
    \div (8 * posting.tf * entry.totalLength + 3 * entry.totalLength
          + 9 * entry.docLengths[posting.docId + 1] * entry.chunkCount)

\* The score of chunk docId: the sum over the distinct query terms, from the
\* i-th term of the query on, of the term's share.
RECURSIVE ScoreSum(_, _, _, _)
ScoreSum(entry, queryTerms, i, docId) ==
  IF i > Len(queryTerms) THEN 0
  ELSE ScoreSum(entry, queryTerms, i + 1, docId)
       + (IF /\ \A j \in 1..(i - 1) : queryTerms[j] # queryTerms[i]
             /\ queryTerms[i] \in DOMAIN entry.postings
             /\ \E n \in 1..Len(entry.postings[queryTerms[i]]) :
                  entry.postings[queryTerms[i]][n].docId = docId
          THEN termScore(entry,
                         CHOOSE posting \in TermSet(entry.postings[queryTerms[i]]) :
                           posting.docId = docId,
                         Idf(entry.chunkCount, Len(entry.postings[queryTerms[i]])),
                         TermFreq(queryTerms, queryTerms[i]))
          ELSE 0)

\* A variant that keeps the results in chunk order.
InsertLast(sorted, r) == Append(sorted, r)

\* results.sort((a, b) => b.score - a.score), one element at a time: the sort
\* is stable, so r goes behind every result that scores at least as much.
InsertByScore(sorted, r) ==
  SubSeq(sorted, 1, Cardinality({i \in 1..Len(sorted) : sorted[i].score >= r.score}))
    \o <<r>>
    \o SubSeq(sorted, Cardinality({i \in 1..Len(sorted) : sorted[i].score >= r.score}) + 1,
              Len(sorted))

\* The loop over scores and the sort: chunk i is kept when it scores more than
\* 0 and, with a minScore (-1: none given), at least minScore.
RECURSIVE RankLoop(_, _, _, _, _)
RankNext(entry, queryTerms, minScore, i, results, score) ==
  RankLoop(entry, queryTerms, minScore, i + 1,
           IF score <= 0 \/ (minScore # -1 /\ score < minScore) THEN results
           ELSE InsertByScore(results, [index |-> i, score |-> score]))

RankLoop(entry, queryTerms, minScore, i, results) ==
  IF i >= entry.chunkCount THEN results
  ELSE RankNext(entry, queryTerms, minScore, i, results, ScoreSum(entry, queryTerms, 1, i))

\* rank: the topK best of the chunks kept.
rank(entry, query, topK, minScore) ==
  IF tokenizeText(query) = <<>> \/ entry.chunkCount = 0 THEN <<>>
  ELSE SubSeq(RankLoop(entry, tokenizeText(query), minScore, 0, <<>>), 1,
              Min(topK, Len(RankLoop(entry, tokenizeText(query), minScore, 0, <<>>))))

IndexInvalidateContext(cache, contextId, sessionId) ==
  LET keep(e) == ~HasContextPrefix(e.key, contextId, sessionId)
  IN  SelectSeq(cache, keep)

IndexInvalidateSession(cache, sessionId) ==
  LET keep(e) == ~HasSessionPrefix(e.key, sessionId)
  IN  SelectSeq(cache, keep)

\* ------------------------------------------------------------ QueryCache
\* Entries keyed by (session, context, kind, options, content hash).
QueryKey(sessionId, contextId, kind, options, contentHash) ==
  [sid |-> sessionId, cid |-> contextId, kind |-> kind, options |-> options,
   hash |-> contentHash]

QueryGet(qc, key) ==
  IF \E e \in qc : e.key = key
  THEN [hit |-> TRUE, payload |-> (CHOOSE e \in qc : e.key = key).payload]
  ELSE [hit |-> FALSE, payload |-> <<>>]

QuerySet(qc, key, payload) ==
  {e \in qc : e.key # key} \cup {[key |-> key, payload |-> payload]}

QueryInvalidateContext(qc, contextId, sessionId) ==
  {e \in qc : ~(e.key.sid = sessionId /\ e.key.cid = contextId)}

QueryInvalidateSession(qc, sessionId) == {e \in qc : e.key.sid # sessionId}


\* ------------------------------------------------------------------ state
VARIABLES
  sessions,    \* SessionManager.sessions: session id -> REPLSession
  now,         \* the clock (Date.now())
  nextId,      \* how many session ids createSession has drawn
  nextDecomp,  \* how many decomposition ids storeDecomposition has drawn
  chunkCache,  \* the ChunkCache singleton
  chunkIndex,  \* the ChunkIndex singleton's Map, in insertion order
  queryCache,  \* the QueryCache singleton's entries
  config,      \* STORAGE_CONFIG: [storage, snapshots], fixed at start
  storage,     \* persisted contexts: <<session id, context id>> -> stored context
  snapshots,   \* persisted history: <<session id, context id>> -> prior contents
  pending,     \* the steps the running handler has still to perform
  last,        \* the last tool call and its reply
  limiter      \* the HTTP server's concurrency limiter and its responses

vars == <<sessions, now, nextId, nextDecomp, chunkCache, chunkIndex, queryCache,
          config, storage, snapshots, pending, last, limiter>>

\* Before startHttpServer: no limiter, no response.
NoLimiter == [created |-> FALSE, maxConcurrent |-> 0, active |-> 0, responses |-> <<>>]

NoSid == ""

EmptyAnswer == [t |-> "ans", content |-> <<>>, ready |-> FALSE]

\* The session object createSession and getDefaultSession build.
NewSession(time) ==
  [contexts |-> <<>>,
   variables |-> ("answer" :> EmptyAnswer),
   executionHistory |-> <<>>,
   decompositions |-> <<>>,
   lastDecomposeByContext |-> <<>>,
   lastActivityAt |-> time]

\* getSession: a hit refreshes lastActivityAt.
getSession(ss, sessionId, time) ==
  IF sessionId \in DOMAIN ss THEN [ss EXCEPT ![sessionId].lastActivityAt = time] ELSE ss

\* getDefaultSession: creates `default` when it is missing, then refreshes it.
getDefaultSession(ss, time) ==
  IF DefaultId \in DOMAIN ss THEN [ss EXCEPT ![DefaultId].lastActivityAt = time]
  ELSE ss @@ (DefaultId :> NewSession(time))

\* this.getSession(sessionId) || this.getDefaultSession()
getSessionOrDefault(ss, sessionId, time) ==
  IF sessionId \in DOMAIN ss
  THEN [id |-> sessionId, ss |-> getSession(ss, sessionId, time)]
  ELSE [id |-> DefaultId, ss |-> getDefaultSession(ss, time)]

\* The tools' strict lookup: params.session_id ? getSession(id) : getDefaultSession(),
\* and SESSION_NOT_FOUND when that yields nothing.
ResolveStrict(ss, sidArg, time) ==
  IF sidArg = NoSid THEN [ok |-> TRUE, id |-> DefaultId, ss |-> getDefaultSession(ss, time)]
  ELSE IF sidArg \in DOMAIN ss THEN [ok |-> TRUE, id |-> sidArg, ss |-> getSession(ss, sidArg, time)]
  ELSE [ok |-> FALSE, id |-> sidArg, ss |-> ss]

\* The tools' lenient lookup: sessionId = params.session_id || 'default', handed
\* to a SessionManager method that does getSession(sessionId) || getDefaultSession().
ResolveLenient(ss, sidArg, time) ==
  getSessionOrDefault(ss, IF sidArg = NoSid THEN DefaultId ELSE sidArg, time)

RECURSIVE SumOver(_, _)
SumOver(f, S) ==
  IF S = {} THEN 0
  ELSE LET x == CHOOSE y \in S : TRUE IN f[x] + SumOver(f, S \ {x})

calculateSessionMemory(session) ==
  SumOver([c \in DOMAIN session.contexts |->
             estimateStringMemory(session.contexts[c].content)],
          DOMAIN session.contexts)
  + SumOver([v \in DOMAIN session.variables |->
               estimateObjectMemory(session.variables[v])],
            DOMAIN session.variables)

\* --------------------------------------------------------------- steps
Step(k, sid, cid, item) == [k |-> k, sid |-> sid, cid |-> cid, item |-> item]

NoItem == [content |-> <<>>, metadata |-> analyzeContent(<<>>), createdAt |-> 0]

\* A variant that publishes first and invalidates afterwards.
MutationStepsPublishFirst(sid, cid, existing, item, cfg) ==
  <<Step("publish", sid, cid, item)>>
  \o (IF cfg.snapshots THEN <<Step("saveSnapshot", sid, cid, existing)>> ELSE <<>>)
  \o <<Step("clearChunkMetadata", sid, cid, NoItem),
       Step("chunkInvalidateContext", sid, cid, NoItem),
       Step("indexInvalidateContext", sid, cid, NoItem),
       Step("queryInvalidateContext", sid, cid, NoItem)>>
  \o (IF cfg.storage THEN <<Step("saveContext", sid, cid, item)>> ELSE <<>>)

\* The side effects of publishing a context that replaces `existing`, in the
\* order of loadContext (overwrite) and appendContext.
MutationSteps(sid, cid, existing, item, cfg) ==
  (IF cfg.snapshots THEN <<Step("saveSnapshot", sid, cid, existing)>> ELSE <<>>)
  \o <<Step("clearChunkMetadata", sid, cid, NoItem),
       Step("chunkInvalidateContext", sid, cid, NoItem),
       Step("indexInvalidateContext", sid, cid, NoItem),
       Step("queryInvalidateContext", sid, cid, NoItem),
       Step("publish", sid, cid, item)>>
  \o (IF cfg.storage THEN <<Step("saveContext", sid, cid, item)>> ELSE <<>>)

\* loadContext of a context id the session does not hold.
FreshLoadSteps(sid, cid, item, cfg) ==
  <<Step("publish", sid, cid, item)>>
  \o (IF cfg.storage THEN <<Step("saveContext", sid, cid, item)>> ELSE <<>>)

\* unloadContext, past its checks.
UnloadSteps(sid, cid, existing, cfg) ==
  (IF cfg.storage THEN <<Step("saveContext", sid, cid, existing)>> ELSE <<>>)
  \o <<Step("chunkInvalidateContext", sid, cid, NoItem),
       Step("indexInvalidateContext", sid, cid, NoItem),
       Step("queryInvalidateContext", sid, cid, NoItem),
       Step("deleteContext", sid, cid, NoItem)>>

\* A variant that takes the session out of the table first.
RemoveSessionStepsTableFirst(sid) ==
  <<Step("deleteSession", sid, "", NoItem),
    Step("chunkInvalidateSession", sid, "", NoItem),
    Step("indexInvalidateSession", sid, "", NoItem),
    Step("queryInvalidateSession", sid, "", NoItem)>>

\* The removal of one session: deleteSession, and each removal of
\* cleanupExpiredSessions and cleanupOldestSession.
RemoveSessionSteps(sid) ==
  <<Step("chunkInvalidateSession", sid, "", NoItem),
    Step("indexInvalidateSession", sid, "", NoItem),
    Step("queryInvalidateSession", sid, "", NoItem),
    Step("deleteSession", sid, "", NoItem)>>

\* A variant that leaves the index alone.
ClearSessionStepsKeepIndex(sid) ==
  <<Step("chunkInvalidateSession", sid, "", NoItem),
    Step("queryInvalidateSession", sid, "", NoItem),
    Step("clearData", sid, "", NoItem)>>

\* clearSession, past its lookup.
ClearSessionSteps(sid) ==
  <<Step("chunkInvalidateSession", sid, "", NoItem),
    Step("indexInvalidateSession", sid, "", NoItem),
    Step("queryInvalidateSession", sid, "", NoItem),
    Step("clearData", sid, "", NoItem)>>


\* saveSnapshot: the context's history gains the prior content and keeps its
\* MaxSnapshots most recent versions.
saveSnapshot(snaps, sid, cid, content) ==
  LET had == IF <<sid, cid>> \in DOMAIN snaps THEN snaps[<<sid, cid>>] ELSE <<>>
      all == Append(had, content)
      kept == IF Len(all) > MaxSnapshots THEN Tail(all) ELSE all
  IN  (<<sid, cid>> :> kept) @@ snaps

\* The effect of one step on the stores.
ApplyStep(st, step) ==
  CASE step.k = "saveSnapshot" ->
         [st EXCEPT !.snapshots = saveSnapshot(@, step.sid, step.cid, step.item.content)]
    [] step.k = "clearChunkMetadata" -> st
    [] step.k = "chunkInvalidateContext" ->
         [st EXCEPT !.chunkCache = ChunkInvalidateContext(@, step.cid, step.sid)]
    [] step.k = "indexInvalidateContext" ->
         [st EXCEPT !.chunkIndex = IndexInvalidateContext(@, step.cid, step.sid)]
    [] step.k = "queryInvalidateContext" ->
         [st EXCEPT !.queryCache = QueryInvalidateContext(@, step.cid, step.sid)]
    [] step.k = "publish" ->
         [st EXCEPT !.sessions[step.sid].contexts = (step.cid :> step.item) @@ @]
    [] step.k = "saveContext" ->
         [st EXCEPT !.storage = (<<step.sid, step.cid>> :> step.item) @@ @]
    [] step.k = "deleteContext" ->
         [st EXCEPT !.sessions[step.sid].contexts =
                      [c \in (DOMAIN @) \ {step.cid} |-> @[c]]]
    [] step.k = "chunkInvalidateSession" ->
         [st EXCEPT !.chunkCache = ChunkInvalidateSession(@, step.sid)]
    [] step.k = "indexInvalidateSession" ->
         [st EXCEPT !.chunkIndex = IndexInvalidateSession(@, step.sid)]
    [] step.k = "queryInvalidateSession" ->
         [st EXCEPT !.queryCache = QueryInvalidateSession(@, step.sid)]
    [] step.k = "deleteSession" ->
         [st EXCEPT !.sessions = [i \in (DOMAIN @) \ {step.sid} |-> @[i]]]
    [] step.k = "clearData" ->
         [st EXCEPT !.sessions[step.sid] =
            [@ EXCEPT !.contexts = <<>>,
                      !.variables = ("answer" :> EmptyAnswer),
                      !.executionHistory = <<>>,
                      !.decompositions = <<>>,
                      !.lastDecomposeByContext = <<>>]]
    [] step.k = "insertSession" ->
         [st EXCEPT !.sessions = @ @@ (step.sid :> NewSession(step.item.createdAt))]

Stores ==
  [sessions |-> sessions, chunkCache |-> chunkCache, chunkIndex |-> chunkIndex,
   queryCache |-> queryCache, storage |-> storage, snapshots |-> snapshots]

SetStores(st) ==
  /\ sessions' = st.sessions
  /\ chunkCache' = st.chunkCache
  /\ chunkIndex' = st.chunkIndex
  /\ queryCache' = st.queryCache
  /\ storage' = st.storage
  /\ snapshots' = st.snapshots

Idle == pending = <<>>

\* The running handler performs its next side effect.
RunStep ==
  /\ pending # <<>>
  /\ SetStores(ApplyStep(Stores, Head(pending)))
  /\ pending' = Tail(pending)
  /\ UNCHANGED <<now, nextId, nextDecomp, config, limiter, last>>

\* ------------------------------------------------- SessionManager.loadContext
\* A variant of the admission checks without the memory projection.
admitLoadNoMemory(session, contextId, content) ==
  IF Cardinality(DOMAIN session.contexts) >= MAX_CONTEXTS_PER_SESSION
  THEN "VARIABLE_LIMIT_EXCEEDED"
  ELSE ""

\* loadContext's checks on the session: the context count, then the projected
\* memory (current - old size of that context + new size).
admitLoad(session, contextId, content) ==
  LET existingSize == IF contextId \in DOMAIN session.contexts
                      THEN estimateStringMemory(session.contexts[contextId].content)
                      ELSE 0
      projectedMemory == calculateSessionMemory(session) - existingSize
                         + estimateStringMemory(content)
  IN  IF Cardinality(DOMAIN session.contexts) >= MAX_CONTEXTS_PER_SESSION
      THEN "VARIABLE_LIMIT_EXCEEDED"
      ELSE IF projectedMemory > MAX_SESSION_MEMORY THEN "SESSION_MEMORY_EXCEEDED"
      ELSE ""

\* The checks of loadContext in their order, then the steps it will perform.
loadContext(ss, sessionId, contextId, content, time, cfg) ==
  IF ~validateContextId(contextId) THEN [error |-> "INVALID_INPUT", ss |-> ss, steps |-> <<>>]
  ELSE IF Len(content) > MAX_CONTEXT_SIZE
  THEN [error |-> "CONTEXT_TOO_LARGE", ss |-> ss, steps |-> <<>>]
  ELSE
    LET r == getSessionOrDefault(ss, sessionId, time)
        session == r.ss[r.id]
        exists == contextId \in DOMAIN session.contexts
        item == [content |-> content, metadata |-> analyzeContent(content),
                 createdAt |-> time]
    IN  IF admitLoad(session, contextId, content) # ""
        THEN [error |-> admitLoad(session, contextId, content), ss |-> r.ss,
              steps |-> <<>>]
        ELSE [error |-> "", ss |-> r.ss,
              steps |-> IF exists
                        THEN MutationSteps(r.id, contextId, session.contexts[contextId],
                                           item, cfg)
                        ELSE FreshLoadSteps(r.id, contextId, item, cfg)]

\* ----------------------------------------------- SessionManager.appendContext
\* A variant that replaces the content instead of combining it.
appendContextAsLoad(ss, sessionId, contextId, content, mode, createIfMissing, time, cfg) ==
  loadContext(ss, sessionId, contextId, content, time, cfg)

appendContext(ss, sessionId, contextId, content, mode, createIfMissing, time, cfg) ==
  IF ~validateContextId(contextId) THEN [error |-> "INVALID_INPUT", ss |-> ss, steps |-> <<>>]
  ELSE
    LET r == getSessionOrDefault(ss, sessionId, time)
        session == r.ss[r.id]
    IN  IF contextId \notin DOMAIN session.contexts
        THEN IF ~createIfMissing
             THEN [error |-> "CONTEXT_NOT_FOUND", ss |-> r.ss, steps |-> <<>>]
             ELSE loadContext(r.ss, r.id, contextId, content, time, cfg)
        ELSE
          LET existing == session.contexts[contextId]
              combined == IF mode = "prepend" THEN content \o existing.content
                          ELSE existing.content \o content
              projectedMemory == calculateSessionMemory(session)
                                 - estimateStringMemory(existing.content)
                                 + estimateStringMemory(combined)
              item == [existing EXCEPT !.content = combined,
                                       !.metadata = analyzeContent(combined)]
          IN  IF Len(combined) > MAX_CONTEXT_SIZE
              THEN [error |-> "CONTEXT_TOO_LARGE", ss |-> r.ss, steps |-> <<>>]
              ELSE IF projectedMemory > MAX_SESSION_MEMORY
              THEN [error |-> "SESSION_MEMORY_EXCEEDED", ss |-> r.ss, steps |-> <<>>]
              ELSE [error |-> "", ss |-> r.ss,
                    steps |-> MutationSteps(r.id, contextId, existing, item, cfg)]


\* ------------------------------ ContextProcessor.decompose, with its cache
decompose(cc, content, strategy, options, contextId, sessionId, time) ==
  LET contentHash == hashContent(content)
      key == generateKey(contextId, sessionId, strategy, options)
      g == ChunkCacheGet(cc, key, contentHash, time)
      u == decomposeUncached(content, strategy, options)
  IN  IF g.hit THEN [ok |-> TRUE, error |-> "", chunks |-> g.chunks, cc |-> g.cc]
      ELSE IF ~u.ok THEN [ok |-> FALSE, error |-> u.error, chunks |-> <<>>, cc |-> g.cc]
      ELSE [ok |-> TRUE, error |-> "", chunks |-> u.chunks,
            cc |-> ChunkCacheSet(g.cc, key, contentHash, u.chunks, time)]

\* ------------------------------------------------------------ tool replies
Reply(tool, sid, cid, error, result) ==
  [tool |-> tool, error |-> error, result |-> result]

\* What a decomposing tool reports: the chunks and the request they answer.
Decomposed(sid, cid, strategy, options, chunks) ==
  [sid |-> sid, cid |-> cid, strategy |-> strategy, options |-> options,
   chunks |-> chunks]

NoCaches == UNCHANGED <<chunkCache, chunkIndex, queryCache>>

\* rlm_load_context
LoadContextTool(sidArg, cid, text) ==
  /\ Idle
  /\ LET r == ResolveStrict(sessions, sidArg, now)
         p == loadContext(r.ss, r.id, cid, text, now, config)
     IN  IF ~r.ok
         THEN /\ last' = Reply("load", r.id, cid, "SESSION_NOT_FOUND", <<>>)
              /\ UNCHANGED <<sessions, pending>>
         ELSE /\ last' = Reply("load", r.id, cid, p.error, <<>>)
              /\ sessions' = p.ss
              /\ pending' = p.steps
  /\ NoCaches
  /\ UNCHANGED <<now, nextId, nextDecomp, config, limiter, storage, snapshots>>

\* rlm_append_context
AppendContextTool(sidArg, cid, text, mode, createIfMissing) ==
  /\ Idle
  /\ LET r == ResolveStrict(sessions, sidArg, now)
         p == appendContext(r.ss, r.id, cid, text, mode, createIfMissing, now, config)
     IN  IF ~r.ok
         THEN /\ last' = Reply("append", r.id, cid, "SESSION_NOT_FOUND", <<>>)
              /\ UNCHANGED <<sessions, pending>>
         ELSE /\ last' = Reply("append", r.id, cid, p.error, <<>>)
              /\ sessions' = p.ss
              /\ pending' = p.steps
  /\ NoCaches
  /\ UNCHANGED <<now, nextId, nextDecomp, config, limiter, storage, snapshots>>

\* rlm_load_context_from_storage: contextStorage.loadContext, then loadContext.
LoadContextFromStorageTool(sidArg, cid) ==
  /\ Idle
  /\ LET r == ResolveStrict(sessions, sidArg, now)
         stored == storage[<<r.id, cid>>]
         p == loadContext(getSessionOrDefault(r.ss, r.id, now).ss, r.id, cid,
                          stored.content, now, config)
     IN  IF ~r.ok
         THEN /\ last' = Reply("loadFromStorage", r.id, cid, "SESSION_NOT_FOUND", <<>>)
              /\ UNCHANGED <<sessions, pending>>
         ELSE IF ~config.storage \/ ~validateContextId(cid)
         THEN /\ last' = Reply("loadFromStorage", r.id, cid, "INVALID_INPUT", <<>>)
              /\ sessions' = r.ss
              /\ UNCHANGED pending
         ELSE IF <<r.id, cid>> \notin DOMAIN storage
         THEN /\ last' = Reply("loadFromStorage", r.id, cid, "CONTEXT_NOT_FOUND", <<>>)
              /\ sessions' = r.ss
              /\ UNCHANGED pending
         ELSE /\ last' = Reply("loadFromStorage", r.id, cid, p.error, <<>>)
              /\ sessions' = p.ss
              /\ pending' = p.steps
  /\ NoCaches
  /\ UNCHANGED <<now, nextId, nextDecomp, config, limiter, storage, snapshots>>

\* rlm_unload_context
UnloadContextTool(sidArg, cid) ==
  /\ Idle
  /\ LET r == ResolveStrict(sessions, sidArg, now)
     IN  IF ~r.ok
         THEN /\ last' = Reply("unload", r.id, cid, "SESSION_NOT_FOUND", <<>>)
              /\ UNCHANGED <<sessions, pending>>
         ELSE IF ~config.storage
         THEN /\ last' = Reply("unload", r.id, cid, "INVALID_INPUT", <<>>)
              /\ sessions' = r.ss
              /\ UNCHANGED pending
         ELSE IF cid \notin DOMAIN r.ss[r.id].contexts
         THEN /\ last' = Reply("unload", r.id, cid, "CONTEXT_NOT_FOUND", <<>>)
              /\ sessions' = r.ss
              /\ UNCHANGED pending
         ELSE /\ last' = Reply("unload", r.id, cid, "", <<>>)
              /\ sessions' = r.ss
              /\ pending' = UnloadSteps(r.id, cid, r.ss[r.id].contexts[cid], config)
  /\ NoCaches
  /\ UNCHANGED <<now, nextId, nextDecomp, config, limiter, storage, snapshots>>

\* storeDecomposition: a record with a fresh id, and the context's pointer to it.
storeDecomposition(session, id, contextId, strategy, options, time) ==
  [session EXCEPT
     !.decompositions = Append(@, [id |-> id, contextId |-> contextId,
                                   strategy |-> strategy, options |-> options,
                                   createdAt |-> time]),
     !.lastDecomposeByContext = (contextId :> id) @@ @]

\* rlm_decompose_context
DecomposeContextTool(sidArg, cid, strategy, options) ==
  /\ Idle
  /\ nextDecomp < MaxDecomps
  /\ LET r == ResolveStrict(sessions, sidArg, now)
     IN  IF ~r.ok
         THEN /\ last' = Reply("decompose", r.id, cid, "SESSION_NOT_FOUND", <<>>)
              /\ UNCHANGED <<sessions, chunkCache, nextDecomp>>
         ELSE IF cid \notin DOMAIN r.ss[r.id].contexts
         THEN /\ last' = Reply("decompose", r.id, cid, "CONTEXT_NOT_FOUND", <<>>)
              /\ sessions' = r.ss
              /\ UNCHANGED <<chunkCache, nextDecomp>>
         ELSE LET d == decompose(chunkCache, r.ss[r.id].contexts[cid].content,
                                 strategy, options, cid, r.id, now)
              IN  /\ chunkCache' = d.cc
                  /\ IF d.ok
                     THEN /\ sessions' = [r.ss EXCEPT ![r.id] =
                               storeDecomposition(@, nextDecomp + 1, cid, strategy,
                                                  options, now)]
                          /\ nextDecomp' = nextDecomp + 1
                     ELSE /\ sessions' = r.ss
                          /\ UNCHANGED nextDecomp
                  /\ last' = Reply("decompose", r.id, cid, d.error,
                                   IF d.ok
                                   THEN Decomposed(r.id, cid, strategy, options, d.chunks)
                                   ELSE <<>>)
  /\ UNCHANGED <<now, nextId, chunkIndex, queryCache, config, limiter, storage, snapshots, pending>>


\* ------------------------------------------- prior decompositions
NoRecord == [id |-> 0]

\* getDecomposition: the record stored under decomposeId, if any.
getDecomposition(session, decomposeId) ==
  LET hits == SelectSeq(session.decompositions, LAMBDA rec : rec.id = decomposeId)
  IN  IF hits = <<>> THEN NoRecord ELSE hits[1]

\* getLastDecomposition: the record lastDecomposeByContext points to.
getLastDecomposition(session, contextId) ==
  IF contextId \in DOMAIN session.lastDecomposeByContext
  THEN getDecomposition(session, session.lastDecomposeByContext[contextId])
  ELSE NoRecord

\* getMostRecentDecomposition: a scan in Map order that replaces its pick only
\* for a strictly later createdAt.
getMostRecentDecomposition(session) ==
  LET recs == session.decompositions
  IN  IF recs = <<>> THEN NoRecord
      ELSE recs[CHOOSE i \in 1..Len(recs) :
                  /\ \A j \in 1..Len(recs) : recs[j].createdAt <= recs[i].createdAt
                  /\ \A j \in 1..(i - 1) : recs[j].createdAt < recs[i].createdAt]

Resolved(error, contextId, strategy, options, decomposeId) ==
  [error |-> error, contextId |-> contextId, strategy |-> strategy,
   options |-> options, decomposeId |-> decomposeId]

FromRecord(rec) == Resolved("", rec.contextId, rec.strategy, rec.options, rec.id)

\* The resolution of context, strategy and options that rlm_get_chunks and
\* rlm_rank_chunks share; decomposeId 0 is a call without decompose_id.
resolveDecomposition(session, contextId, strategy, options, decomposeId, useLast) ==
  LET invalid == Resolved("INVALID_INPUT", contextId, strategy, options, 0)
  IN  IF decomposeId # 0
      THEN LET record == getDecomposition(session, decomposeId)
           IN  IF record = NoRecord THEN invalid
               ELSE IF contextId # record.contextId /\ contextId # "main" THEN invalid
               ELSE FromRecord(record)
      ELSE IF useLast
      THEN IF contextId \in DOMAIN session.contexts
           THEN LET record == getLastDecomposition(session, contextId)
                IN  IF record # NoRecord THEN FromRecord(record)
                    ELSE IF contextId = "main"
                    THEN IF getMostRecentDecomposition(session) = NoRecord THEN invalid
                         ELSE FromRecord(getMostRecentDecomposition(session))
                    ELSE invalid
           ELSE IF getMostRecentDecomposition(session) = NoRecord THEN invalid
                ELSE FromRecord(getMostRecentDecomposition(session))
      ELSE Resolved("", contextId, strategy, options, 0)

\* The chunks a tool hands back for the requested indices.
pickChunks(allChunks, indices) ==
  LET ok(i) == i >= 0 /\ i < Len(allChunks)
      kept == SelectSeq(indices, ok)
  IN  [j \in 1..Len(kept) |->
         [index |-> kept[j],
          content |-> allChunks[kept[j] + 1].content,
          start_offset |-> allChunks[kept[j] + 1].startOffset,
          end_offset |-> allChunks[kept[j] + 1].endOffset]]

\* rlm_get_chunks
GetChunksVia(sidArg, cidArg, strategyArg, optionsArg, indices, decomposeId, useLast) ==
  /\ Idle
  /\ LET r == ResolveStrict(sessions, sidArg, now)
         res == resolveDecomposition(r.ss[r.id], cidArg, strategyArg, optionsArg,
                                     decomposeId, useLast)
         cid == res.contextId
         strategy == res.strategy
         options == res.options
     IN  IF ~r.ok
         THEN /\ last' = Reply("getChunks", r.id, cidArg, "SESSION_NOT_FOUND", <<>>)
              /\ UNCHANGED <<sessions, chunkCache>>
         ELSE IF res.error # ""
         THEN /\ last' = Reply("getChunks", r.id, cidArg, res.error, <<>>)
              /\ sessions' = r.ss
              /\ UNCHANGED chunkCache
         ELSE IF cid \notin DOMAIN r.ss[r.id].contexts
         THEN /\ last' = Reply("getChunks", r.id, cid, "CONTEXT_NOT_FOUND", <<>>)
              /\ sessions' = r.ss
              /\ UNCHANGED chunkCache
         ELSE LET d == decompose(chunkCache, r.ss[r.id].contexts[cid].content,
                                 strategy, options, cid, r.id, now)
              IN  /\ chunkCache' = d.cc
                  /\ sessions' = r.ss
                  /\ last' = Reply("getChunks", r.id, cid, d.error,
                                   IF d.ok
                                   THEN [decompose_id |-> res.decomposeId]
                                        @@ Decomposed(r.id, cid, strategy, options,
                                                      pickChunks(d.chunks, indices))
                                   ELSE <<>>)
  /\ UNCHANGED <<now, nextId, nextDecomp, chunkIndex, queryCache, config, limiter, storage,
                 snapshots, pending>>

\* rlm_get_chunks with context, strategy and options given in the call
GetChunksTool(sidArg, cid, strategy, options, indices) ==
  GetChunksVia(sidArg, cid, strategy, options, indices, 0, FALSE)

\* The rank reply: the chunk count and, per returned chunk, its extent.
rankOutput(query, chunks, entry) ==
  [query |-> query,
   total_chunks |-> Len(chunks),
   results |-> {[index |-> i,
                 start_offset |-> entry.chunkMetadata[i + 1].startOffset,
                 end_offset |-> entry.chunkMetadata[i + 1].endOffset,
                 length |-> entry.chunkMetadata[i + 1].length]
                : i \in rankedIndices(entry, query)}]

\* rlm_rank_chunks
RankChunksVia(sidArg, cidArg, strategyArg, optionsArg, query, decomposeId, useLast) ==
  /\ Idle
  /\ LET r == ResolveStrict(sessions, sidArg, now)
         res == resolveDecomposition(r.ss[r.id], cidArg, strategyArg, optionsArg,
                                     decomposeId, useLast)
         cid == res.contextId
         strategy == res.strategy
         options == res.options
     IN  IF ~r.ok
         THEN /\ last' = Reply("rank", r.id, cidArg, "SESSION_NOT_FOUND", <<>>)
              /\ UNCHANGED <<sessions, chunkCache, chunkIndex, queryCache>>
         ELSE IF res.error # ""
         THEN /\ last' = Reply("rank", r.id, cidArg, res.error, <<>>)
              /\ sessions' = r.ss
              /\ UNCHANGED <<chunkCache, chunkIndex, queryCache>>
         ELSE IF cid \notin DOMAIN r.ss[r.id].contexts
         THEN /\ last' = Reply("rank", r.id, cid, "CONTEXT_NOT_FOUND", <<>>)
              /\ sessions' = r.ss
              /\ UNCHANGED <<chunkCache, chunkIndex, queryCache>>
         ELSE
           LET content == r.ss[r.id].contexts[cid].content
               cacheOptions == [query |-> query, strategy |-> strategy,
                                chunk_size |-> options.chunkSize,
                                overlap |-> options.overlap]
               qkey == QueryKey(r.id, cid, "rank_chunks", cacheOptions,
                                hashContent(content))
               cached == QueryGet(queryCache, qkey)
               d == decompose(chunkCache, content, strategy, options, cid, r.id, now)
               ix == getOrBuildIndex(chunkIndex, cid, r.id, strategy, options,
                                     content, d.chunks, now)
               output == rankOutput(query, d.chunks, ix.entry)
           IN  /\ sessions' = r.ss
               /\ IF cached.hit
                  THEN /\ last' = Reply("rank", r.id, cid, "",
                                        [sid |-> r.id, cid |-> cid, strategy |-> strategy,
                                         options |-> options,
                                         output |-> cached.payload, cache_hit |-> TRUE,
                                         resolvedDecomposeId |-> res.decomposeId])
                       /\ UNCHANGED <<chunkCache, chunkIndex, queryCache>>
                  ELSE IF ~d.ok
                  THEN /\ last' = Reply("rank", r.id, cid, d.error, <<>>)
                       /\ chunkCache' = d.cc
                       /\ UNCHANGED <<chunkIndex, queryCache>>
                  ELSE /\ last' = Reply("rank", r.id, cid, "",
                                        [sid |-> r.id, cid |-> cid, strategy |-> strategy,
                                         options |-> options,
                                         output |-> output, cache_hit |-> FALSE,
                                         resolvedDecomposeId |-> res.decomposeId])
                       /\ chunkCache' = d.cc
                       /\ chunkIndex' = ix.cache
                       /\ queryCache' = QuerySet(queryCache, qkey, output)
  /\ UNCHANGED <<now, nextId, nextDecomp, config, limiter, storage, snapshots, pending>>

\* rlm_rank_chunks with context, strategy and options given in the call
RankChunksTool(sidArg, cid, strategy, options, query) ==
  RankChunksVia(sidArg, cid, strategy, options, query, 0, FALSE)

\* rlm_search_context with the default flags (gi; the contents of the model are
\* lower case), context_chars and max_results
SearchContextTool(sidArg, cid, pattern) ==
  /\ Idle
  /\ LET r == ResolveStrict(sessions, sidArg, now)
     IN  IF ~r.ok
         THEN /\ last' = Reply("search", r.id, cid, "SESSION_NOT_FOUND", <<>>)
              /\ UNCHANGED <<sessions, queryCache>>
         ELSE IF cid \notin DOMAIN r.ss[r.id].contexts
         THEN /\ last' = Reply("search", r.id, cid, "CONTEXT_NOT_FOUND", <<>>)
              /\ sessions' = r.ss
              /\ UNCHANGED queryCache
         ELSE
           LET content == r.ss[r.id].contexts[cid].content
               qkey == QueryKey(r.id, cid, "search", [pattern |-> pattern],
                                hashContent(content))
               cached == QueryGet(queryCache, qkey)
               found == searchSync(content, pattern, MAX_SEARCH_RESULTS)
               output == [pattern |-> pattern, total_matches |-> Len(found.results),
                          matches |-> found.results]
           IN  /\ sessions' = r.ss
               /\ IF cached.hit
                  THEN /\ last' = Reply("search", r.id, cid, "",
                                        [sid |-> r.id, cid |-> cid,
                                         output |-> cached.payload, cache_hit |-> TRUE])
                       /\ UNCHANGED queryCache
                  ELSE /\ last' = Reply("search", r.id, cid, "",
                                        [sid |-> r.id, cid |-> cid,
                                         output |-> output, cache_hit |-> FALSE])
                       /\ queryCache' = QuerySet(queryCache, qkey, output)
  /\ UNCHANGED <<now, nextId, nextDecomp, chunkCache, chunkIndex, config, limiter, storage,
                 snapshots, pending>>

\* A call of ChunkIndex.getOrBuildIndex; the reply keeps the content passed, the
\* cache as it was and the entry returned.
GetOrBuildIndexCall(contextId, options, content) ==
  /\ Idle
  /\ LET g == getOrBuildIndex(chunkIndex, contextId, DefaultId, "fixed_size", options,
                              content, decomposeBySize(content, 2, 1).chunks, now)
     IN  /\ chunkIndex' = g.cache
         /\ last' = Reply("getOrBuildIndex", DefaultId, contextId, "",
                          [content |-> content, before |-> chunkIndex,
                           entry |-> g.entry])
  /\ UNCHANGED <<sessions, now, nextId, nextDecomp, chunkCache, queryCache, config, limiter,
                 storage, snapshots, pending>>

\* The chunks with the given contents, one after the other.
ChunksOf(contents) ==
  [i \in 1..Len(contents) |->
     [index |-> i - 1, content |-> contents[i],
      startOffset |-> 0, endOffset |-> Len(contents[i])]]

\* A call of ChunkIndex.rank on the index of a chunk list, made on the server
\* as constructed.
RankCall(contents, query, topK, minScore) ==
  /\ Idle
  /\ last.tool = ""
  /\ last' = Reply("ChunkIndex.rank", NoSid, "", "",
                   [contents |-> contents, query |-> query, topK |-> topK,
                    minScore |-> minScore,
                    out |-> rank(buildIndex(<<>>, ChunksOf(contents), now),
                                 query, topK, minScore)])
  /\ NoCaches
  /\ UNCHANGED <<sessions, now, nextId, nextDecomp, config, limiter, storage, snapshots, pending>>

\* Two calls of ChunkIndex.rank: on a chunk list, and on the list with one more
\* chunk at its end.
RankPairCall(contents, added, query, topK) ==
  /\ Idle
  /\ last.tool = ""
  /\ last' = Reply("ChunkIndex.rank twice", NoSid, "", "",
                   [contents |-> contents, added |-> added, query |-> query,
                    topK |-> topK,
                    before |-> rank(buildIndex(<<>>, ChunksOf(contents), now),
                                    query, topK, -1),
                    after |-> rank(buildIndex(<<>>, ChunksOf(Append(contents, added)), now),
                                   query, topK, -1)])
  /\ NoCaches
  /\ UNCHANGED <<sessions, now, nextId, nextDecomp, config, limiter, storage, snapshots, pending>>

\* A call of ChunkCache.set.
CacheSetCall(contextId, options, contentHash, chunks) ==
  /\ Idle
  /\ chunkCache' = ChunkCacheSet(chunkCache,
                                 generateKey(contextId, DefaultId, "fixed_size", options),
                                 contentHash, chunks, now)
  /\ last' = Reply("ChunkCache.set", DefaultId, contextId, "", chunks)
  /\ UNCHANGED <<sessions, now, nextId, nextDecomp, chunkIndex, queryCache, config, limiter,
                 storage, snapshots, pending>>

\* A call of ContextProcessor.decompose without a cache key, made on the server
\* as constructed; the reply keeps the arguments next to the outcome.
DecomposeCall(strategy, text, options) ==
  /\ Idle
  /\ last.tool = ""
  /\ last' = Reply("ContextProcessor.decompose", NoSid, "", "",
                   [strategy |-> strategy, text |-> text, options |-> options,
                    out |-> decomposeUncached(text, strategy, options)])
  /\ NoCaches
  /\ UNCHANGED <<sessions, now, nextId, nextDecomp, config, limiter, storage, snapshots, pending>>

\* A call of one of the scans, made on the server as constructed (a scan reads
\* no state); the reply keeps the arguments next to the outcome.
ScanCall(kind, text, pattern, global, cap) ==
  /\ Idle
  /\ last.tool = ""
  /\ validateRegexPattern(pattern).valid
  /\ last' = Reply("scan", NoSid, "", "",
                   [kind |-> kind, text |-> text, pattern |-> pattern,
                    global |-> global, cap |-> cap,
                    out |-> scan(kind, text, pattern, global, cap,
                                 2 * (Len(text) + 2) + cap)])
  /\ NoCaches
  /\ UNCHANGED <<sessions, now, nextId, nextDecomp, config, limiter, storage, snapshots, pending>>

\* ------------------------------------------------------ session lifecycle
\* The live session ids other than `default`, in Map (creation) order.
CreatedOrder(ss) ==
  LET live(id) == id \in DOMAIN ss IN SelectSeq(IdPool, live)

\* A variant that evicts the first created session.
oldestSessionFirstCreated(ss) ==
  IF CreatedOrder(ss) = <<>> THEN NoSid ELSE CreatedOrder(ss)[1]

\* cleanupOldestSession's pick: the first session, `default` skipped, with the
\* least lastActivityAt; NoSid when there is none.
oldestSession(ss) ==
  LET ord == CreatedOrder(ss)
  IN  IF ord = <<>> THEN NoSid
      ELSE ord[CHOOSE i \in 1..Len(ord) :
                 /\ \A j \in 1..Len(ord) :
                      ss[ord[i]].lastActivityAt <= ss[ord[j]].lastActivityAt
                 /\ \A j \in 1..(i - 1) :
                      ss[ord[j]].lastActivityAt > ss[ord[i]].lastActivityAt]

cleanupOldestSession(ss) ==
  IF oldestSession(ss) = NoSid THEN <<>> ELSE RemoveSessionSteps(oldestSession(ss))

\* A variant that expires a session as soon as its idle time reaches the TTL.
expiredSessionsAtTtl(ss, time) ==
  LET expired(id) == time - ss[id].lastActivityAt >= SESSION_TIMEOUT_MS
  IN  SelectSeq(CreatedOrder(ss), expired)

\* A variant that does not skip `default`.
expiredSessionsWithDefault(ss, time) ==
  LET expired(id) == id \in DOMAIN ss /\ time - ss[id].lastActivityAt > SESSION_TIMEOUT_MS
  IN  SelectSeq(<<DefaultId>> \o IdPool, expired)

\* cleanupExpiredSessions' picks, in Map order: `default` skipped, idle for
\* more than SESSION_TIMEOUT_MS.
expiredSessions(ss, time) ==
  LET expired(id) == time - ss[id].lastActivityAt > SESSION_TIMEOUT_MS
  IN  SelectSeq(CreatedOrder(ss), expired)

RECURSIVE RemoveAll(_)
RemoveAll(ids) ==
  IF ids = <<>> THEN <<>> ELSE RemoveSessionSteps(Head(ids)) \o RemoveAll(Tail(ids))

cleanupExpiredSessions(ss, time) == RemoveAll(expiredSessions(ss, time))

\* createSession (rlm_create_session)
CreateSessionTool ==
  /\ Idle
  /\ nextId < MaxIds
  /\ nextId' = nextId + 1
  /\ pending' = (IF Cardinality(DOMAIN sessions) >= MAX_SESSIONS
                 THEN cleanupOldestSession(sessions) ELSE <<>>)
                \o <<Step("insertSession", IdPool[nextId + 1], "",
                          [NoItem EXCEPT !.createdAt = now])>>
  /\ last' = Reply("createSession", IdPool[nextId + 1], "", "", <<>>)
  /\ UNCHANGED <<sessions, now, nextDecomp, chunkCache, chunkIndex, queryCache,
                 config, limiter, storage, snapshots>>

\* deleteSession
DeleteSession(sid) ==
  /\ Idle
  /\ pending' = (IF sid \in DOMAIN sessions THEN RemoveSessionSteps(sid) ELSE <<>>)
  /\ last' = Reply("deleteSession", sid, "",
                   IF sid \in DOMAIN sessions THEN "" ELSE "SESSION_NOT_FOUND", <<>>)
  /\ UNCHANGED <<sessions, now, nextId, nextDecomp, chunkCache, chunkIndex, queryCache,
                 config, limiter, storage, snapshots>>

\* rlm_clear_session: clearSession(params.session_id || 'default')
ClearSessionTool(sidArg) ==
  /\ Idle
  /\ LET sid == IF sidArg = NoSid THEN DefaultId ELSE sidArg
     IN  /\ sessions' = getSession(sessions, sid, now)
         /\ pending' = (IF sid \in DOMAIN sessions THEN ClearSessionSteps(sid) ELSE <<>>)
         /\ last' = Reply("clearSession", sid, "", "", [session_id |-> sid])
  /\ UNCHANGED <<now, nextId, nextDecomp, chunkCache, chunkIndex, queryCache,
                 config, limiter, storage, snapshots>>

\* The scavenger's timer fires: cleanupExpiredSessions.
Scavenge ==
  /\ Idle
  /\ pending' = cleanupExpiredSessions(sessions, now)
  /\ last' = Reply("scavenge", NoSid, "", "", <<>>)
  /\ UNCHANGED <<sessions, now, nextId, nextDecomp, chunkCache, chunkIndex, queryCache,
                 config, limiter, storage, snapshots>>

\* Time passes.
\* ---------------------------------------------- createConcurrencyLimiter
\* A variant of release without the `released` flag.
releaseUnguarded(lim, res) ==
  [lim EXCEPT !.active = Max(0, @ - 1), !.responses[res].released = TRUE]

\* release: the closure tryAcquire registers for `finish` and `close`.
release(lim, res) ==
  IF lim.responses[res].released THEN lim
  ELSE [lim EXCEPT !.responses[res].released = TRUE, !.active = Max(0, @ - 1)]

\* tryAcquire(res): refuses at the maximum; otherwise counts the request and
\* registers release on both events of the response.
tryAcquire(lim, res) ==
  IF lim.active >= lim.maxConcurrent
  THEN [lim EXCEPT !.responses =
          @ @@ (res :> [admitted |-> FALSE, released |-> FALSE, emitted |-> {}])]
  ELSE [lim EXCEPT !.active = @ + 1,
                   !.responses =
          @ @@ (res :> [admitted |-> TRUE, released |-> FALSE, emitted |-> {}])]

\* startHttpServer creates the limiter.
StartHttpServer(maxConcurrent) ==
  /\ ~limiter.created
  /\ limiter' = [NoLimiter EXCEPT !.created = TRUE, !.maxConcurrent = maxConcurrent]
  /\ UNCHANGED <<sessions, now, nextId, nextDecomp, chunkCache, chunkIndex, queryCache,
                 config, storage, snapshots, pending, last>>

\* POST /mcp: a request arrives with a response object of its own.
PostMcp ==
  /\ limiter.created
  /\ Len(limiter.responses) < MaxResponses
  /\ LET res == Len(limiter.responses) + 1
     IN  /\ limiter' = tryAcquire(limiter, res)
         /\ last' = Reply("tryAcquire", "", "",
                          IF limiter'.responses[res].admitted THEN "" ELSE "429", res)
  /\ UNCHANGED <<sessions, now, nextId, nextDecomp, chunkCache, chunkIndex, queryCache,
                 config, storage, snapshots, pending>>

\* A response emits `finish` or `close`; only an admitted response has a
\* listener on them.
Emit(res, event) ==
  /\ res \in DOMAIN limiter.responses
  /\ event \notin limiter.responses[res].emitted
  /\ LET heard == IF limiter.responses[res].admitted THEN release(limiter, res)
                  ELSE limiter
     IN  limiter' = [heard EXCEPT !.responses[res].emitted = @ \cup {event}]
  /\ last' = Reply(event, "", "", "", res)
  /\ UNCHANGED <<sessions, now, nextId, nextDecomp, chunkCache, chunkIndex, queryCache,
                 config, storage, snapshots, pending>>

\* ChunkCache.get, invalidateContext, invalidateSession and clear, called on
\* the cache alone.
CacheGetCall(contextId, options, contentHash) ==
  /\ Idle
  /\ LET key == generateKey(contextId, DefaultId, "fixed_size", options)
         g == ChunkCacheGet(chunkCache, key, contentHash, now)
     IN  /\ chunkCache' = g.cc
         /\ last' = Reply("ChunkCache.get", DefaultId, contextId, "",
                          [hit |-> g.hit,
                           dropped |-> Len(g.cc.cache) < Len(chunkCache.cache)])
  /\ UNCHANGED <<sessions, now, nextId, nextDecomp, chunkIndex, queryCache, config, limiter,
                 storage, snapshots, pending>>

CacheInvalidateContextCall(contextId, sessionId) ==
  /\ Idle
  /\ chunkCache' = ChunkInvalidateContext(chunkCache, contextId, sessionId)
  /\ last' = Reply("ChunkCache.invalidateContext", sessionId, contextId, "",
                   Len(chunkCache.cache) - Len(chunkCache'.cache))
  /\ UNCHANGED <<sessions, now, nextId, nextDecomp, chunkIndex, queryCache, config, limiter,
                 storage, snapshots, pending>>

CacheInvalidateSessionCall(sessionId) ==
  /\ Idle
  /\ chunkCache' = ChunkInvalidateSession(chunkCache, sessionId)
  /\ last' = Reply("ChunkCache.invalidateSession", sessionId, "", "",
                   Len(chunkCache.cache) - Len(chunkCache'.cache))
  /\ UNCHANGED <<sessions, now, nextId, nextDecomp, chunkIndex, queryCache, config, limiter,
                 storage, snapshots, pending>>

CacheClearCall ==
  /\ Idle
  /\ chunkCache' = ChunkCacheClear(chunkCache)
  /\ last' = Reply("ChunkCache.clear", "", "", "", <<>>)
  /\ UNCHANGED <<sessions, now, nextId, nextDecomp, chunkIndex, queryCache, config, limiter,
                 storage, snapshots, pending>>

Tick ==
  /\ Idle
  /\ now < MaxTime
  /\ now' = now + 1
  /\ UNCHANGED <<sessions, nextId, nextDecomp, chunkCache, chunkIndex, queryCache,
                 config, limiter, storage, snapshots, pending, last>>

\* ---------------------------------------------------------- variables
\* setVariable: name check, count cap for a new name, size cap, then the write.
setVariable(ss, sessionId, name, value, time) ==
  IF ~validateVariableName(name) THEN [error |-> "INVALID_INPUT", ss |-> ss]
  ELSE
    LET r == getSessionOrDefault(ss, sessionId, time)
        session == r.ss[r.id]
    IN  IF name \notin DOMAIN session.variables
           /\ Cardinality(DOMAIN session.variables) >= MAX_VARIABLES_PER_SESSION
        THEN [error |-> "VARIABLE_LIMIT_EXCEEDED", ss |-> r.ss]
        ELSE IF estimateObjectMemory(value) > MAX_VARIABLE_SIZE
        THEN [error |-> "VARIABLE_LIMIT_EXCEEDED", ss |-> r.ss]
        ELSE [error |-> "",
              ss |-> [r.ss EXCEPT ![r.id].variables = (name :> value) @@ @]]

\* ------------------------------------------------------------- RLMError
\* logger.startToolCall: the trace id of the call.
TraceId == [t |-> "trace"]

Undefined == [t |-> "undefined"]

BigInt == [t |-> "bigint"]

\* new RLMError(code, message, details, traceId)
RLMError(code, message, details, traceId) ==
  [kind |-> "RLMError", code |-> code, message |-> message, details |-> details,
   traceId |-> traceId]

\* The Errors factories: none of them passes a trace id.
Errors ==
  [contextNotFound |->
     RLMError("CONTEXT_NOT_FOUND", "Context not found",
              [contextId |-> "main", sessionId |-> "default"], Undefined),
   contextTooLarge |->
     RLMError("CONTEXT_TOO_LARGE", "Context too large",
              [size |-> MAX_CONTEXT_SIZE + 1, maxSize |-> MAX_CONTEXT_SIZE], Undefined),
   sessionNotFound |->
     RLMError("SESSION_NOT_FOUND", "Session not found", [sessionId |-> IdPool[1]], Undefined),
   sessionMemoryExceeded |->
     RLMError("SESSION_MEMORY_EXCEEDED", "Session memory limit exceeded",
              [used |-> MAX_SESSION_MEMORY + 1, limit |-> MAX_SESSION_MEMORY], Undefined),
   invalidRegex |->
     RLMError("INVALID_REGEX", "Invalid regex pattern",
              [pattern |-> "(a", reason |-> "Invalid regex syntax"], Undefined),
   variableLimitExceeded |->
     RLMError("VARIABLE_LIMIT_EXCEEDED", "Variable limit exceeded",
              [count |-> MAX_VARIABLES_PER_SESSION, limit |-> MAX_VARIABLES_PER_SESSION],
              Undefined),
   chunkLimitExceeded |->
     RLMError("CHUNK_LIMIT_EXCEEDED", "Too many chunks generated",
              [count |-> MAX_CHUNKS + 1, limit |-> MAX_CHUNKS], Undefined),
   invalidInput |->
     RLMError("INVALID_INPUT", "Invalid input for variable_name",
              [field |-> "variable_name", reason |-> "Reserved variable name"],
              Undefined)]

\* JSON.stringify(result, null, 2) throws a TypeError on a BigInt. The Error
\* carries the stack V8 recorded: the frames from the throw upwards, each with
\* the file it lies in.
Serializable(value) == value.t # "bigint"

SerializeError ==
  [kind |-> "Error", name |-> "TypeError",
   message |-> "Do not know how to serialize a BigInt",
   stack |-> <<[at |-> "JSON.stringify", file |-> "<anonymous>"],
               [at |-> "executeWithTracking",
                file |-> "/srv/rlm-mcp/dist/tools/rlm-tools.js"]>>]

\* RLMError.fromError
fromError(error, traceId) ==
  IF error.kind = "RLMError" THEN error
  ELSE IF error.kind = "Error"
  THEN RLMError("INTERNAL_ERROR", error.message,
                [originalError |-> error.name, stack |-> error.stack], traceId)
  ELSE RLMError("INTERNAL_ERROR", error.text, Undefined, traceId)

\* RLMError.toJSON as JSON.stringify writes it: a field that is undefined is
\* left out.
toJSON(e, timestamp) ==
  [error |-> TRUE, code |-> e.code, message |-> e.message, timestamp |-> timestamp]
  @@ (IF e.details = Undefined THEN <<>> ELSE [details |-> e.details])
  @@ (IF e.traceId = Undefined THEN <<>> ELSE [traceId |-> e.traceId])

\* RLMError.toMCPResponse
toMCPResponse(e, timestamp) == [isError |-> TRUE, content |-> toJSON(e, timestamp)]

\* executeWithTracking: the handler's result serialized, or the envelope of
\* what the handler or the serialization threw.
executeWithTracking(thrown, result, unserializable, traceId, time) ==
  IF thrown # Undefined THEN toMCPResponse(fromError(thrown, traceId), time)
  ELSE IF unserializable THEN toMCPResponse(fromError(SerializeError, traceId), time)
  ELSE [isError |-> FALSE, content |-> result]

\* rlm_set_variable: setVariable(params.session_id || 'default', name, value)
SetVariableTool(sidArg, name, value) ==
  /\ Idle
  /\ LET r == setVariable(sessions, IF sidArg = NoSid THEN DefaultId ELSE sidArg,
                          name, value, now)
     IN  /\ sessions' = r.ss
         /\ last' = Reply("setVariable", sidArg, "", r.error,
                          [sidArg |-> sidArg, name |-> name])
  /\ NoCaches
  /\ UNCHANGED <<now, nextId, nextDecomp, config, limiter, storage, snapshots, pending>>

\* rlm_set_answer: setVariable(..., 'answer', {content, ready})
SetAnswerTool(sidArg, content, ready) ==
  /\ Idle
  /\ LET r == setVariable(sessions, IF sidArg = NoSid THEN DefaultId ELSE sidArg,
                          "answer", [t |-> "ans", content |-> content, ready |-> ready],
                          now)
     IN  /\ sessions' = r.ss
         /\ last' = Reply("setAnswer", sidArg, "", r.error,
                          [sidArg |-> sidArg, name |-> "answer"])
  /\ NoCaches
  /\ UNCHANGED <<now, nextId, nextDecomp, config, limiter, storage, snapshots, pending>>

\* rlm_get_variable: getVariable looks the session up with getSession only.
GetVariableTool(sidArg, name) ==
  /\ Idle
  /\ LET sid == IF sidArg = NoSid THEN DefaultId ELSE sidArg
     IN  /\ sessions' = getSession(sessions, sid, now)
         /\ LET found == sid \in DOMAIN sessions /\ name \in DOMAIN sessions[sid].variables
                 result == IF found
                           THEN [found |-> TRUE, value |-> sessions[sid].variables[name]]
                           ELSE [found |-> FALSE]
                 reply == executeWithTracking(Undefined, result,
                                              found /\ ~Serializable(result.value),
                                              TraceId, now)
             IN  last' = Reply("getVariable", sid, "",
                               IF reply.isError THEN reply.content.code ELSE "",
                               reply.content)
  /\ NoCaches
  /\ UNCHANGED <<now, nextId, nextDecomp, config, limiter, storage, snapshots, pending>>

\* ------------------------------------------------------------ the sandbox
\* Executed code is a sequence of calls of the functions createSandbox exposes.
Call(op, name, value) == [op |-> op, name |-> name, value |-> value]

Num == [t |-> "num"]

Str(v) == [t |-> "str", v |-> v]

\* The variables Map the sandbox functions of a run close over.
sandboxVariables(session) == session.variables

\* What a call or a run leaves: the session, the output buffer, whether a value
\* was thrown and its message, and the time the run took.
Returns(session, out) ==
  [session |-> session, out |-> out, threw |-> FALSE, message |-> "", ms |-> 0]

Throws(session, out, message, ms) ==
  [session |-> session, out |-> out, threw |-> TRUE, message |-> message, ms |-> ms]

\* The message of the error vm2 raises when the time budget is exceeded.
TimedOutMessage == "Script execution timed out after 30000ms"

\* text.replace(regex, "_") with the g flag, from the j-th match of ms on.
RECURSIVE Replaced(_, _, _)
Replaced(text, ms, j) ==
  LET from == IF j = 1 THEN 0 ELSE ms[j - 1].index + ms[j - 1].length
  IN  IF j > Len(ms) THEN Slice(text, from, Len(text))
      ELSE Slice(text, from, ms[j].index) \o <<"_">> \o Replaced(text, ms, j + 1)

\* What a regex helper returns for the matches ms of its pattern in the text.
HelperValue(helper, text, ms) ==
  CASE helper = "search" ->
         [t |-> "list", v |-> [j \in 1..Len(ms) |-> Found(text, ms, Len(ms))[j].match]]
    [] helper = "findAll" -> [t |-> "list", v |-> Found(text, ms, 1000)]
    [] helper = "replace" -> Str(Replaced(text, ms, 1))
    [] helper = "test" -> [t |-> "bool", v |-> ms # <<>>]

\* The sandbox's search, findAll, replace and test: new RegExp(pattern) inside
\* a try whose catch gives the default. `compiled` and `ran` tell whether the
\* pattern was compiled and whether it was run against the text.
regexHelper(helper, pattern, text) ==
  IF Compiles(pattern)
  THEN [value |-> HelperValue(helper, text, ExecAll(text, 0, Ungroup(pattern))),
        compiled |-> TRUE, ran |-> TRUE]
  ELSE [value |-> CASE helper = "replace" -> Str(text)
                    [] helper = "test" -> [t |-> "bool", v |-> FALSE]
                    [] OTHER -> [t |-> "list", v |-> <<>>],
        compiled |-> TRUE, ran |-> FALSE]

\* One call: its effect on the session object and on the output buffer.
RunCall(session, out, call) ==
  CASE call.op = "setVar" ->
         Returns(IF validateVariableName(call.name)
                 THEN [session EXCEPT !.variables = (call.name :> call.value) @@ @]
                 ELSE session,
                 out)
    [] call.op = "printVar" ->
         Returns(session,
                 Append(out, IF call.name \in DOMAIN sandboxVariables(session)
                             THEN sandboxVariables(session)[call.name]
                             ELSE Undefined))
    [] call.op = "deleteVar" ->
         Returns([session EXCEPT !.variables =
                    [v \in (DOMAIN @) \ {call.name} |-> @[v]]],
                 out)
    [] call.op = "setAnswer" ->
         Returns([session EXCEPT !.variables =
                    ("answer" :> [t |-> "ans", content |-> call.value,
                                  ready |-> FALSE]) @@ @],
                 out)
    [] call.op = "appendAnswer" ->
         LET current == IF "answer" \in DOMAIN session.variables
                        THEN session.variables["answer"] ELSE EmptyAnswer
         IN  Returns([session EXCEPT !.variables =
                        ("answer" :> [t |-> "ans",
                                      content |-> current.content \o call.value,
                                      ready |-> current.ready]) @@ @],
                     out)
    [] call.op = "printContext" ->
         Returns(session,
                 Append(out, IF call.name \in DOMAIN session.contexts
                             THEN Str(session.contexts[call.name].content)
                             ELSE Undefined))
    [] call.op = "assignMetadata" ->
         \* assign(getContextMetadata(id), {length: value}): Object.assign on the
         \* metadata object the session holds, or on undefined (a TypeError).
         IF call.name \in DOMAIN session.contexts
         THEN Returns([session EXCEPT
                         !.contexts[call.name].metadata.length = call.value],
                      out)
         ELSE Throws(session, out, "Cannot convert undefined or null to object", 0)
    \* print(helper(pattern, text)) for one of the regex helpers, the
    \* replacement of replace being "_"
    [] call.op = "regex" ->
         Returns(session,
                 Append(out, regexHelper(call.name, call.value.pattern,
                                         call.value.text).value))
    \* throw value: the catch block sees value.message, or String(value)
    [] call.op = "throw" -> Throws(session, out, call.value, 0)
    \* text that does not compile: VMScript raises a SyntaxError
    [] call.op = "syntaxError" -> Throws(session, out, call.value, 0)
    [] call.op = "loop" ->
         Throws(session, out, TimedOutMessage, TIMEOUT_MS)

\* vm.run: the calls in order, up to the first that throws.
RECURSIVE RunCode(_, _, _)
RunCode(session, out, code) ==
  IF code = <<>> THEN Returns(session, out)
  ELSE LET r == RunCall(session, out, Head(code))
       IN  IF r.threw THEN r ELSE RunCode(r.session, r.out, Tail(code))

\* The helper calls of the program `regexes`: every helper with a literal, with
\* a pattern of a declared ReDoS shape and with one that does not compile.
HelperText == <<"a", "a", "b", "a">>

RegexCalls ==
  LET patterns == <<<<"a">>, <<"(", "a", "+", ")", "+", "b">>, <<"(", "a">>>>
      helpers == <<"search", "findAll", "replace", "test">>
  IN  [i \in 1..12 |-> [helper |-> helpers[((i - 1) \div 3) + 1],
                        pattern |-> patterns[((i - 1) % 3) + 1]]]

\* The programs the model runs, by their text.
Programs ==
  [setXY |-> <<Call("setVar", "x", Num), Call("setVar", "y", Num)>>,
   peek |-> <<Call("printVar", "x", 0), Call("printContext", "main", 0)>>,
   answer |-> <<Call("setAnswer", "", <<"a">>), Call("appendAnswer", "", <<"b">>),
                Call("assignMetadata", "main", 0)>>,
   setThrow |-> <<Call("setVar", "x", Str(<<"a", "b">>)), Call("deleteVar", "y", 0),
                  Call("throw", "", "boom")>>,
   spin |-> <<Call("loop", "", 0)>>,
   setBig |-> <<Call("setVar", "x", BigInt)>>,
   dropAnswer |-> <<Call("deleteVar", "answer", 0)>>,
   setNames |-> <<Call("setVar", "__proto__", Num), Call("setVar", "1x", Num),
                  Call("setVar", "_v1", Num)>>,
   throwEmpty |-> <<Call("printVar", "x", 0), Call("throw", "", "")>>,
   broken |-> <<Call("syntaxError", "", "Unexpected token")>>,
   regexes |-> [i \in 1..Len(RegexCalls) |->
                  Call("regex", RegexCalls[i].helper,
                       [pattern |-> RegexCalls[i].pattern, text |-> HelperText])]]

\* A variant in which every sandbox is built over the default session.
sandboxTargetDefault(ss, id) == IF DefaultId \in DOMAIN ss THEN ss[DefaultId] ELSE ss[id]

\* The session object handed to createSandbox: the one executeCode resolved.
sandboxTarget(ss, id) == ss[id]

\* A variant that keeps a full history as it is.
pushRecordKeepOldest(history, record) ==
  IF Len(history) >= MAX_EXECUTION_HISTORY THEN history ELSE Append(history, record)

\* if (executionHistory.length >= MAX_EXECUTION_HISTORY) shift(); push(record)
pushRecord(history, record) ==
  Append(IF Len(history) >= MAX_EXECUTION_HISTORY THEN Tail(history) ELSE history,
         record)

\* executeCode: run, build the record, push it on the capped history.
executeCode(ss, sessionId, code, time) ==
  LET r == getSessionOrDefault(ss, sessionId, time)
      run == RunCode(sandboxTarget(r.ss, r.id), <<>>, Programs[code])
      isTimeout == run.message = TimedOutMessage
      record == IF run.threw
                THEN [code |-> code, output |-> <<>>,
                      error |-> IF isTimeout THEN Str("Execution timeout (30000ms)")
                                ELSE Str(run.message),
                      durationMs |-> run.ms]
                ELSE [code |-> code, output |-> run.out, error |-> Undefined,
                      durationMs |-> run.ms]
  IN  [id |-> r.id,
       record |-> record,
       ss |-> [r.ss EXCEPT ![r.id] =
                 [run.session EXCEPT !.executionHistory = pushRecord(@, record)]]]

\* JavaScript's !value for the values an error field takes.
Not(value) == value = Undefined \/ value = Str("")

\* rlm_execute_code: executeCode(params.session_id || 'default', code)
ExecuteCodeTool(sidArg, code) ==
  /\ Idle
  /\ LET r == executeCode(sessions, IF sidArg = NoSid THEN DefaultId ELSE sidArg,
                          code, now)
     IN  /\ sessions' = r.ss
         /\ last' = Reply("execute", r.id, "", "",
                          [sid |-> r.id, record |-> r.record,
                           success |-> Not(r.record.error),
                           output |-> r.record.output,
                           error |-> r.record.error,
                           duration_ms |-> r.record.durationMs])
  /\ NoCaches
  /\ UNCHANGED <<now, nextId, nextDecomp, config, limiter, storage, snapshots, pending>>

\* SessionManager.loadContext, called on the registry itself.
LoadContextCall(sessionId, contextId, content) ==
  /\ Idle
  /\ LET p == loadContext(sessions, sessionId, contextId, content, now, config)
     IN  /\ last' = Reply("SessionManager.loadContext", sessionId, contextId, p.error,
                          [contextId |-> contextId])
         /\ sessions' = p.ss
         /\ pending' = p.steps
  /\ NoCaches
  /\ UNCHANGED <<now, nextId, nextDecomp, config, limiter, storage, snapshots>>

\* SessionManager.appendContext, called on the registry itself.
AppendContextCall(sessionId, contextId, content, mode, createIfMissing) ==
  /\ Idle
  /\ LET p == appendContext(sessions, sessionId, contextId, content, mode,
                            createIfMissing, now, config)
     IN  /\ last' = Reply("SessionManager.appendContext", sessionId, contextId, p.error,
                          [contextId |-> contextId])
         /\ sessions' = p.ss
         /\ pending' = p.steps
  /\ NoCaches
  /\ UNCHANGED <<now, nextId, nextDecomp, config, limiter, storage, snapshots>>

\* ------------------------------------------------------------ the inputs
Texts == {<<"a">>, <<"a", "a", "b", "a">>}

Pieces == {<<"b">>}

DecomposeOptions == {[chunkSize |-> -1, overlap |-> -1], [chunkSize |-> 2, overlap |-> 1]}

Queries == {<<"b">>}

RequestedIndices == <<0, 1>>

Configs == {[storage |-> TRUE, snapshots |-> TRUE], [storage |-> FALSE, snapshots |-> FALSE]}

\* --------------------------------------------------------- specification
Init ==
  /\ sessions = <<>>
  /\ now = 0
  /\ nextId = 0
  /\ nextDecomp = 0
  /\ chunkCache = [cache |-> <<>>, totalSizeBytes |-> 0]
  /\ chunkIndex = <<>>
  /\ queryCache = {}
  /\ config \in Configs
  /\ storage = <<>>
  /\ snapshots = <<>>
  /\ pending = <<>>
  /\ last = Reply("", NoSid, "", "", <<>>)
  /\ limiter = NoLimiter

\* Contexts and their caches, in the default session: every operation on
\* `main`, and loads of a second context beside it.
Next ==
  \/ RunStep
  \/ \E text \in Texts : LoadContextTool(NoSid, "main", text)
  \/ LoadContextTool(NoSid, "c2", <<"a">>)
  \/ LoadContextTool(NoSid, "c3", <<"a", "b">>)
  \/ \E text \in Pieces, mode \in {"append", "prepend"}, createIfMissing \in BOOLEAN :
       AppendContextTool(NoSid, "main", text, mode, createIfMissing)
  \/ LoadContextFromStorageTool(NoSid, "main")
  \/ UnloadContextTool(NoSid, "main")
  \/ \E options \in DecomposeOptions :
       (nextDecomp < MaxMainDecomps
        /\ DecomposeContextTool(NoSid, "main", "fixed_size", options))
  \/ \E options \in DecomposeOptions :
       GetChunksTool(NoSid, "main", "fixed_size", options, RequestedIndices)
  \/ \E query \in Queries :
       RankChunksTool(NoSid, "main", "fixed_size", [chunkSize |-> 2, overlap |-> 1], query)
  \/ ClearSessionTool(NoSid)

Spec == Init /\ [][Next]_vars

\* The session table and its caches: every session, one context each.
SessionArgs == {NoSid} \cup {IdPool[i] : i \in 1..MaxTableIds}

NextSessions ==
  \/ RunStep
  \/ \E sidArg \in SessionArgs : LoadContextTool(sidArg, "main", <<"a">>)
  \/ \E sidArg \in SessionArgs :
       RankChunksTool(sidArg, "main", "fixed_size", [chunkSize |-> 2, overlap |-> 1],
                      <<"a">>)
  \/ (nextId < MaxTableIds /\ CreateSessionTool)
  \/ \E sid \in SessionArgs \ {NoSid} : DeleteSession(sid)
  \/ Scavenge
  \/ Tick

SpecSessions == Init /\ [][NextSessions]_vars

\* Variables and executed code: the default session and one created session.
LongText == [i \in 1..(MAX_VARIABLE_SIZE \div 2) |-> "a"]

\* The programs of the variable and sandbox runs.
VMPrograms == {"setXY", "peek", "answer", "setThrow", "spin"}

NextVM ==
  \/ RunStep
  \/ \E code \in VMPrograms : ExecuteCodeTool(NoSid, code)
  \/ ExecuteCodeTool(IdPool[1], "peek")
  \/ \E sidArg \in {NoSid, IdPool[1]}, name \in {"x", "__proto__"},
        value \in {Num, Str(<<"a", "b">>), Str(LongText)} :
       SetVariableTool(sidArg, name, value)
  \/ \E ready \in BOOLEAN : SetAnswerTool(NoSid, <<"a">>, ready)
  \/ GetVariableTool(NoSid, "x")
  \/ LoadContextTool(NoSid, "main", <<"a">>)
  \/ (nextId = 0 /\ CreateSessionTool)

SpecVM == Init /\ [][NextVM]_vars

\* Executed code and its history: runs that return, throw, do not compile or
\* time out, in the default session and in a created one, and a clear.
HistoryPrograms == {"setXY", "setThrow", "spin", "throwEmpty", "broken"}

HistoryArgs == {NoSid, IdPool[1]}

NextHistory ==
  \/ RunStep
  \/ \E sidArg \in HistoryArgs, code \in HistoryPrograms : ExecuteCodeTool(sidArg, code)
  \/ \E sidArg \in HistoryArgs : GetVariableTool(sidArg, "x")
  \/ (nextId = 0 /\ CreateSessionTool)
  \/ ClearSessionTool(NoSid)

SpecHistory == Init /\ [][NextHistory]_vars

\* Patterns: a literal, a repeated literal, two declared ReDoS shapes and one
\* that does not compile.
Patterns ==
  {<<"a">>, <<"b", "+">>, <<"(", "a", "+", ")", "+", "b">>,
   <<"(", ".", "*", "a", ")", "+">>, <<"(", "a">>}

NextRegex ==
  \/ RunStep
  \/ \E text \in Texts : LoadContextTool(NoSid, "main", text)
  \/ \E pattern \in Patterns : SearchContextTool(NoSid, "main", pattern)
  \/ \E pattern \in Patterns :
       /\ nextDecomp < MaxMainDecomps
       /\ DecomposeContextTool(NoSid, "main", "by_regex",
                               [chunkSize |-> -1, overlap |-> -1, pattern |-> pattern])

SpecRegex == Init /\ [][NextRegex]_vars

\* The regex helpers of the sandbox, run in either session next to programs
\* that set and print variables.
NextHelpers ==
  \/ RunStep
  \/ \E sidArg \in HistoryArgs, code \in {"regexes", "setXY", "peek", "throwEmpty"} :
       ExecuteCodeTool(sidArg, code)
  \/ \E value \in {Num, Str(<<"a", "b">>)} : SetVariableTool(NoSid, "x", value)
  \/ (nextId = 0 /\ CreateSessionTool)

SpecHelpers == Init /\ [][NextHelpers]_vars

\* The strategies of decompose on every text of up to three characters that
\* matter to some strategy, and on a few longer ones.
ChunkChars == {"a", "\n", "#", " ", "."}

ChunkTexts ==
  UNION {[1..n -> ChunkChars] : n \in 0..3}
    \cup {<<"a", "b">>, <<"a", "b", "a", "b">>,
          <<"a", "b", "c", "d", "e", "f", "g", "h", "i", "j">>,
          <<"#", " ", "a", "\n", "b", "\n", "#", "#", " ", "a">>,
          <<"a", "\n", "\n", "b", "\n", "\n", "\n", "b">>,
          <<"a", ".", " ", "b", ".", "a">>, <<"a", ".", "a", ".", "a", ".">>,
          <<"#", " ", "a", "\n", "#", " ", "a", "\n", "#", " ", "a">>}

ChunkCalls ==
  {<<"fixed_size", [chunkSize |-> c, overlap |-> o]>> : c \in {-1, 1, 2, 4}, o \in -1..2}
    \cup {<<"by_lines", [linesPerChunk |-> c, overlap |-> o]>> : c \in {-1, 1, 2}, o \in -1..1}
    \cup {<<"by_regex", [pattern |-> q]>> :
            q \in {<<>>, <<"a">>, <<"\n", "+">>, <<"a", "(", "?", "=", "(", "b", ")", ")">>}}
    \cup {<<s, [overlap |-> -1]>> : s \in {"by_paragraphs", "by_sections", "by_sentences"}}

NextChunks ==
  \E text \in ChunkTexts, call \in ChunkCalls : DecomposeCall(call[1], text, call[2])

SpecChunks == Init /\ [][NextChunks]_vars

\* The chunk cache by itself: the chunk lists of three texts set under four keys.
\* A context may hold MAX_CONTEXT_SIZE characters of two bytes each, twice the
\* cache's byte ceiling; the text of 100 characters, cut into two chunks of 402
\* bytes together, stands for such a context.
CacheTexts == {<<"a">>, <<"a", "a">>, [i \in 1..100 |-> "a"]}

NextCache ==
  \/ \E cid \in {"main", "c2"}, text \in CacheTexts :
       CacheSetCall(cid, [chunkSize |-> 60, overlap |-> 1], hashContent(<<"a">>),
                    decomposeBySize(text, 60, 1).chunks)
  \/ \E cid \in {"main", "c2"}, text \in {q \in CacheTexts : Len(q) <= MAX_CHUNKS} :
       CacheSetCall(cid, [chunkSize |-> 2, overlap |-> 1], hashContent(text),
                    decomposeBySize(text, 2, 1).chunks)
  \/ Tick

SpecCache == Init /\ [][NextCache]_vars

\* Ranking: lists of one to three chunks out of five texts, queries of no, one
\* and two terms, and a chunk added to a list.
RankTexts ==
  {<<"b", "b">>, <<"a", " ", "b">>, <<"b", " ", "a", " ", "b">>,
   <<"a", " ", "a", " ", "b", " ", "b", " ", "b">>,
   <<"b", " ", "a", " ", "b", " ", "b", " ", "a">>}

RankLists == UNION {[1..n -> RankTexts] : n \in 1..3}

RankQueries == {<<"a">>, <<"b", " ", "a">>, <<"a", " ", "a">>, <<" ">>}

NextRank ==
  \/ \E contents \in RankLists, query \in RankQueries, topK \in 1..3,
        minScore \in {-1, 30000} :
       RankCall(contents, query, topK, minScore)
  \/ \E contents \in RankLists, added \in {<<"b">>, <<"b", "b">>, <<" ">>},
        topK \in 2..3 :
       RankPairCall(contents, added, <<"a">>, topK)

SpecRank == Init /\ [][NextRank]_vars

\* The index cache by itself: three contexts whose content changes.
NextIndex ==
  \/ \E cid \in {"main", "c2", "c3"}, content \in {<<"a">>, <<"a", "b">>} :
       GetOrBuildIndexCall(cid, [chunkSize |-> 2, overlap |-> 1], content)
  \/ Tick

SpecIndex == Init /\ [][NextIndex]_vars

\* Identifiers of every kind: empty, blank, with a character outside the
\* pattern, one character too long, reserved, and well formed ones up to the
\* longest allowed.
Id100 ==
  "aaaaaaaaaa" \o "aaaaaaaaaa" \o "aaaaaaaaaa" \o "aaaaaaaaaa" \o "aaaaaaaaaa"
  \o "aaaaaaaaaa" \o "aaaaaaaaaa" \o "aaaaaaaaaa" \o "aaaaaaaaaa" \o "aaaaaaaaaa"

ContextIds == {"", "bad id", "a\n", Id100 \o "a", "c-2_B", Id100}

VariableNames ==
  {"", "1x", "a-b", Id100 \o "a", "__proto__", "constructor", "prototype", "_v1", Id100}

NextValid ==
  \/ RunStep
  \/ \E contextId \in ContextIds : LoadContextCall(DefaultId, contextId, <<"a">>)
  \/ \E contextId \in ContextIds, createIfMissing \in BOOLEAN :
       AppendContextCall(DefaultId, contextId, <<>>, "append", createIfMissing)
  \/ \E name \in VariableNames : SetVariableTool(NoSid, name, Num)
  \/ (now = 0 /\ ExecuteCodeTool(NoSid, "setNames"))
  \/ Tick

\* The registry without a storage directory (RLM_STORAGE_DIR unset).
InitValid == Init /\ ~config.storage

SpecValid == InitValid /\ [][NextValid]_vars

\* Replies: the variables of the default session, `answer` among them, written
\* by the tools and by executed code, deleted by executed code, and read back
\* while the clock runs.
NextReply ==
  \/ \E code \in {"setBig", "dropAnswer"} : ExecuteCodeTool(NoSid, code)
  \/ \E name \in {"x", "answer", "__proto__"}, value \in {Num, Str(<<"a">>)} :
       SetVariableTool(NoSid, name, value)
  \/ \E ready \in BOOLEAN : SetAnswerTool(NoSid, <<"a">>, ready)
  \/ \E name \in {"x", "y", "answer"} : GetVariableTool(NoSid, name)
  \/ Tick

SpecReply == Init /\ [][NextReply]_vars

\* Clearing: the default session and one created session, each with a context,
\* variables, executed code, decompositions and cache entries, cleared by id, by
\* default and under an id that names no session.
\* Every operation of the chunk cache, in any order: sets under four keys with
\* chunk lists of three sizes, lookups with the hash of either text.
ByteTexts == {<<"a">>, <<"a", "a">>}

ByteOptions == {[chunkSize |-> 2, overlap |-> 1], [chunkSize |-> 60, overlap |-> 1]}

NextBytes ==
  \/ \E cid \in {"main", "c2"}, options \in ByteOptions, hashed \in ByteTexts,
        text \in ByteTexts \cup {[i \in 1..100 |-> "a"]} :
       CacheSetCall(cid, options, hashContent(hashed),
                    decomposeBySize(text, 60, 1).chunks)
  \/ \E cid \in {"main", "c2"}, options \in ByteOptions, text \in ByteTexts :
       CacheGetCall(cid, options, hashContent(text))
  \/ \E cid \in {"main", "c2"}, sessionId \in {DefaultId, IdPool[1]} :
       CacheInvalidateContextCall(cid, sessionId)
  \/ \E sessionId \in {DefaultId, IdPool[1]} : CacheInvalidateSessionCall(sessionId)
  \/ CacheClearCall
  \/ Tick

SpecBytes == Init /\ [][NextBytes]_vars

\* The HTTP front end: the server starts with one of three maxima, requests
\* arrive on fresh responses, and every response emits `finish` and `close`
\* at most once each, in either order.
MaxConcurrents == {0, 1, 2}

NextHttp ==
  \/ \E maxConcurrent \in MaxConcurrents : StartHttpServer(maxConcurrent)
  \/ PostMcp
  \/ \E res \in 1..MaxResponses, event \in {"finish", "close"} : Emit(res, event)

SpecHttp == Init /\ [][NextHttp]_vars

\* Two sessions whose ids share a beginning; the first holds the contexts `doc`
\* and `doc2`, the second `doc`. Unloading needs the storage.
KeyPairs == {<<IdPool[1], "doc">>, <<IdPool[1], "doc2">>, <<IdPool[2], "doc">>}

KeyOptions == [chunkSize |-> 2, overlap |-> 1]

NextKeys ==
  \/ RunStep
  \/ (nextId < 2 /\ CreateSessionTool)
  \/ \E p \in KeyPairs : LoadContextTool(p[1], p[2], <<"a">>)
  \/ AppendContextTool(IdPool[1], "doc", <<"b">>, "append", FALSE)
  \/ UnloadContextTool(IdPool[1], "doc")
  \/ \E p \in KeyPairs : DecomposeContextTool(p[1], p[2], "fixed_size", KeyOptions)
  \/ \E p \in KeyPairs \ {<<IdPool[1], "doc">>} :
       RankChunksTool(p[1], p[2], "fixed_size", KeyOptions, <<"a">>)

InitKeys == Init /\ config.storage

SpecKeys == InitKeys /\ [][NextKeys]_vars

ClearArgs == {NoSid, IdPool[1]}

NextClear ==
  \/ RunStep
  \/ (nextId = 0 /\ CreateSessionTool)
  \/ \E sidArg \in ClearArgs : LoadContextTool(sidArg, "main", <<"a", "b">>)
  \/ \E sidArg \in ClearArgs :
       DecomposeContextTool(sidArg, "main", "fixed_size", [chunkSize |-> 2, overlap |-> 1])
  \/ \E sidArg \in ClearArgs :
       RankChunksTool(sidArg, "main", "fixed_size", [chunkSize |-> 2, overlap |-> 1],
                      <<"a">>)
  \/ \E sidArg \in ClearArgs : ExecuteCodeTool(sidArg, "setXY")
  \/ \E sidArg \in ClearArgs \cup {IdPool[2]} : ClearSessionTool(sidArg)

SpecClear == Init /\ [][NextClear]_vars

\* The chunk limit: one context of two characters, decomposed by every strategy
\* through the tool, next to direct calls on longer texts.
LimitTexts == {<<"\n", "\n">>, <<"a", ".">>}

NextLimit ==
  \/ RunStep
  \/ \E text \in LimitTexts : LoadContextTool(NoSid, "main", text)
  \/ \E call \in ChunkCalls : DecomposeContextTool(NoSid, "main", call[1], call[2])
  \/ \E text \in {q \in ChunkTexts : Len(q) > 3}, call \in ChunkCalls :
       DecomposeCall(call[1], text, call[2])

SpecLimit == Init /\ [][NextLimit]_vars

\* The scan loops on texts and patterns some of which match the empty string,
\* with and without the g flag, under a small and a larger match cap.
ScanTexts == {<<>>, <<"a">>, <<"b">>, <<"a", "a", "b">>, <<"b", "a", "b", "a">>}

ScanPatterns ==
  {<<"a">>, <<"a", "*">>, <<"b", "?">>, <<"a", "+", "b">>, <<"a", "*", "b", "?">>,
   <<"(", "a", "+", ")", "+", "b">>}

NextScan ==
  \E kind \in {"searchSync", "findAll", "safeRegexSearch"}, text \in ScanTexts,
     pattern \in ScanPatterns, global \in BOOLEAN, cap \in {1, 3} :
    ScanCall(kind, text, pattern, global, cap)

SpecScan == Init /\ [][NextScan]_vars

\* Eviction at the cap: creations, lookups that count as activity, the clock.
EvictArgs == {NoSid} \cup {IdPool[i] : i \in 1..MaxIds}

NextEvict ==
  \/ RunStep
  \/ CreateSessionTool
  \/ \E sidArg \in EvictArgs : GetVariableTool(sidArg, "x")
  \/ \E sidArg \in EvictArgs : SetVariableTool(sidArg, "x", Num)
  \/ Tick

SpecEvict == Init /\ [][NextEvict]_vars


\* The scavenger: its interval timer keeps firing and the clock keeps running
\* whatever the callers do; a started handler runs to its end.
NextScavenge ==
  \/ RunStep
  \/ (nextId < MaxTableIds /\ CreateSessionTool)
  \/ \E sidArg \in SessionArgs : GetVariableTool(sidArg, "x")
  \/ \E sidArg \in SessionArgs : SetVariableTool(sidArg, "x", Num)
  \/ Scavenge
  \/ Tick

SpecScavenge ==
  /\ Init
  /\ [][NextScavenge]_vars
  /\ WF_vars(RunStep)
  /\ WF_vars(Tick)
  /\ WF_vars(Scavenge)

\* Appends over time: one context that is loaded, extended and decomposed
\* while the clock runs.
NextAppend ==
  \/ RunStep
  \/ \E text \in Texts : LoadContextTool(NoSid, "main", text)
  \/ \E text \in Pieces, mode \in {"append", "prepend"}, createIfMissing \in BOOLEAN :
       AppendContextTool(NoSid, "main", text, mode, createIfMissing)
  \/ \E options \in DecomposeOptions :
       GetChunksTool(NoSid, "main", "fixed_size", options, RequestedIndices)
  \/ Tick

SpecAppend == Init /\ [][NextAppend]_vars

\* Prior decompositions: two contexts and a context id that is never loaded,
\* decomposed while the clock runs and read back by id or by `last`.
GivenOptions == [chunkSize |-> -1, overlap |-> -1]

RecordedOptions == [chunkSize |-> 2, overlap |-> 1]

\* decompose_id (0: none) and use_last_decompose of a call that names a prior
\* decomposition; decompose_id wins when both are given.
Lookups ==
  {[decomposeId |-> id, useLast |-> FALSE] : id \in 1..MaxDecomps}
    \cup {[decomposeId |-> 0, useLast |-> TRUE]}

NextDecomp ==
  \/ RunStep
  \/ \E cid \in {"main", "c2"} : LoadContextTool(NoSid, cid, <<"a">>)
  \/ \E cid \in {"main", "c2"} :
       DecomposeContextTool(NoSid, cid, "fixed_size", RecordedOptions)
  \/ \E lookup \in Lookups, cid \in {"main", "c2", "c3"} :
       GetChunksVia(NoSid, cid, "fixed_size", GivenOptions, RequestedIndices,
                    lookup.decomposeId, lookup.useLast)
  \/ \E lookup \in Lookups, cid \in {"main", "c2", "c3"} :
       RankChunksVia(NoSid, cid, "fixed_size", GivenOptions, <<"a">>,
                     lookup.decomposeId, lookup.useLast)
  \/ Tick

SpecDecomp == Init /\ [][NextDecomp]_vars

\* ======================================================== properties
\* The cache entries keyed on (sid, cid).
ChunkEntriesOf(sid, cid) ==
  {i \in 1..Len(chunkCache.cache) : HasContextPrefix(chunkCache.cache[i].key, cid, sid)}

IndexEntriesOf(sid, cid) ==
  {i \in 1..Len(chunkIndex) : HasContextPrefix(chunkIndex[i].key, cid, sid)}

QueryEntriesOf(sid, cid) == {e \in queryCache : e.key.sid = sid /\ e.key.cid = cid}

\* The position in `pending` of the running handler's publish, or 0.
PublishAt ==
  IF \E i \in 1..Len(pending) : pending[i].k = "publish"
  THEN CHOOSE i \in 1..Len(pending) : pending[i].k = "publish"
  ELSE 0

\* The running handler is about to replace the content of an existing context.
Replacing ==
  /\ PublishAt # 0
  /\ pending[PublishAt].sid \in DOMAIN sessions
  /\ pending[PublishAt].cid \in DOMAIN sessions[pending[PublishAt].sid].contexts

StepsBeforePublish == [i \in 1..(PublishAt - 1) |-> pending[i].k]

StepDone(k) == \A i \in 1..(PublishAt - 1) : pending[i].k # k

MutationOrder ==
  (IF config.snapshots THEN <<"saveSnapshot">> ELSE <<>>)
  \o <<"clearChunkMetadata", "chunkInvalidateContext", "indexInvalidateContext",
       "queryInvalidateContext">>

\* Every cache entry of a context carries the hash of the content the session
\* shows for it.
EntriesMatchContent ==
  /\ \A i \in 1..Len(chunkCache.cache) :
       LET key == chunkCache.cache[i].key
       IN  /\ key[1] \in DOMAIN sessions
           /\ key[2] \in DOMAIN sessions[key[1]].contexts
           /\ chunkCache.cache[i].contentHash
                = hashContent(sessions[key[1]].contexts[key[2]].content)
  /\ \A i \in 1..Len(chunkIndex) :
       LET key == chunkIndex[i].key
       IN  /\ key[1] \in DOMAIN sessions
           /\ key[2] \in DOMAIN sessions[key[1]].contexts
           /\ chunkIndex[i].contentHash
                = hashContent(sessions[key[1]].contexts[key[2]].content)
  /\ \A e \in queryCache :
       /\ e.key.sid \in DOMAIN sessions
       /\ e.key.cid \in DOMAIN sessions[e.key.sid].contexts
       /\ e.key.hash = hashContent(sessions[e.key.sid].contexts[e.key.cid].content)

\* C1: while a handler is replacing the content of an existing context, the
\* steps still ahead of its publish are a tail of the order snapshot (when
\* enabled), chunk-cache invalidation, index invalidation, query-cache
\* invalidation; each step already taken has had its effect (the snapshot
\* holds the prior content, the cache holds no entry of that context); and in
\* every state each cache entry carries the hash of the content the session
\* shows, so new content is never visible beside an entry built from old content.
C1_MutationOrder ==
  /\ Replacing =>
       LET sid == pending[PublishAt].sid
           cid == pending[PublishAt].cid
           old == sessions[sid].contexts[cid]
       IN  /\ \E n \in 0..Len(MutationOrder) :
                StepsBeforePublish = SubSeq(MutationOrder, n + 1, Len(MutationOrder))
           /\ (config.snapshots /\ StepDone("saveSnapshot"))
                => /\ <<sid, cid>> \in DOMAIN snapshots
                   /\ snapshots[<<sid, cid>>][Len(snapshots[<<sid, cid>>])] = old.content
           /\ StepDone("chunkInvalidateContext") => ChunkEntriesOf(sid, cid) = {}
           /\ StepDone("indexInvalidateContext") => IndexEntriesOf(sid, cid) = {}
           /\ StepDone("queryInvalidateContext") => QueryEntriesOf(sid, cid) = {}
  /\ EntriesMatchContent

\* A handler that changes the content of a context whose caches are all
\* populated has taken its snapshot and stands before the chunk-cache invalidation.
C1_Witness ==
  /\ Replacing
  /\ config.snapshots
  /\ Head(pending).k = "chunkInvalidateContext"
  /\ LET sid == pending[PublishAt].sid
         cid == pending[PublishAt].cid
     IN  /\ pending[PublishAt].item.content # sessions[sid].contexts[cid].content
         /\ ChunkEntriesOf(sid, cid) # {}
         /\ IndexEntriesOf(sid, cid) # {}
         /\ QueryEntriesOf(sid, cid) # {}


\* The decomposition options a cache key was built from.
OptionsOfKey(optStr) == CHOOSE o \in DecomposeOptions : optionsStr(o) = optStr

\* What an uncached decomposition of the context's current content yields.
FreshChunks(sid, cid, strategy, options) ==
  decomposeUncached(sessions[sid].contexts[cid].content, strategy, options).chunks

FreshIndex(sid, cid, strategy, options) ==
  buildIndex(hashContent(sessions[sid].contexts[cid].content),
             FreshChunks(sid, cid, strategy, options), 0)

\* Every entry of the three caches is what the current content yields.
CachesFresh ==
  /\ \A i \in 1..Len(chunkCache.cache) :
       LET e == chunkCache.cache[i]
       IN  /\ e.key[1] \in DOMAIN sessions
           /\ e.key[2] \in DOMAIN sessions[e.key[1]].contexts
           /\ e.chunks = FreshChunks(e.key[1], e.key[2], e.key[3], OptionsOfKey(e.key[4]))
  /\ \A i \in 1..Len(chunkIndex) :
       LET e == chunkIndex[i]
       IN  /\ e.key[1] \in DOMAIN sessions
           /\ e.key[2] \in DOMAIN sessions[e.key[1]].contexts
           /\ [e EXCEPT !.lastAccessedAt = 0]
                = [key |-> e.key]
                  @@ FreshIndex(e.key[1], e.key[2], e.key[3], OptionsOfKey(e.key[4]))
  /\ \A e \in queryCache :
       LET options == [chunkSize |-> e.key.options.chunk_size,
                       overlap |-> e.key.options.overlap]
       IN  /\ e.key.sid \in DOMAIN sessions
           /\ e.key.cid \in DOMAIN sessions[e.key.sid].contexts
           /\ e.payload
                = rankOutput(e.key.options.query,
                             FreshChunks(e.key.sid, e.key.cid, e.key.options.strategy,
                                         options),
                             FreshIndex(e.key.sid, e.key.cid, e.key.options.strategy,
                                        options))

\* The reply of a decomposing tool is what the current content yields.
RepliesFresh ==
  /\ (last.tool = "decompose" /\ last.error = "")
       => last.result.chunks = FreshChunks(last.result.sid, last.result.cid,
                                           last.result.strategy, last.result.options)
  /\ (last.tool = "getChunks" /\ last.error = "")
       => last.result.chunks
            = pickChunks(FreshChunks(last.result.sid, last.result.cid,
                                     last.result.strategy, last.result.options),
                         RequestedIndices)
  /\ (last.tool = "rank" /\ last.error = "")
       => last.result.output
            = rankOutput(last.result.output.query,
                         FreshChunks(last.result.sid, last.result.cid,
                                     last.result.strategy, last.result.options),
                         FreshIndex(last.result.sid, last.result.cid,
                                    last.result.strategy, last.result.options))

\* C2: cache coherence. In every state each chunk-cache, index and query-cache
\* entry of a context equals what an uncached computation on the context's
\* current content gives, and the reply of rlm_decompose_context,
\* rlm_get_chunks and rlm_rank_chunks is exactly that of an uncached
\* decomposition of the current content with the same strategy and options.
C2_CacheCoherence == CachesFresh /\ RepliesFresh

\* A rank served from the query cache for a context whose content was
\* replaced earlier (its history holds a different prior content).
C2_Witness ==
  /\ last.tool = "rank"
  /\ last.error = ""
  /\ last.result.cache_hit
  /\ last.result.output.results # {}
  /\ <<last.result.sid, last.result.cid>> \in DOMAIN snapshots
  /\ snapshots[<<last.result.sid, last.result.cid>>][1]
       # sessions[last.result.sid].contexts[last.result.cid].content

\* ---- admission
ContextsOf(ss, sid) == IF sid \in DOMAIN ss THEN ss[sid].contexts ELSE <<>>

\* The session as the handler finds it (`default` is created on demand).
SessionFound(sid) == IF sid \in DOMAIN sessions THEN sessions[sid] ELSE NewSession(now)

\* current - old size of that context + new size
ProjectedMemory(sid, cid, text) ==
  calculateSessionMemory(SessionFound(sid))
  - (IF cid \in DOMAIN ContextsOf(sessions, sid)
     THEN estimateStringMemory(ContextsOf(sessions, sid)[cid].content) ELSE 0)
  + estimateStringMemory(text)

OverCaps(sid, cid, text) ==
  \/ Len(text) > MAX_CONTEXT_SIZE
  \/ ProjectedMemory(sid, cid, text) > MAX_SESSION_MEMORY

\* The text an append or prepend would leave in the context.
Combined(sid, cid, text, mode) ==
  IF cid \notin DOMAIN ContextsOf(sessions, sid) THEN text
  ELSE IF mode = "prepend" THEN text \o ContextsOf(sessions, sid)[cid].content
  ELSE ContextsOf(sessions, sid)[cid].content \o text

\* The step changed no context, no cache entry and no stored copy, and left
\* nothing to do.
NothingChanged ==
  /\ \A sid \in DOMAIN sessions' : sessions'[sid].contexts = ContextsOf(sessions, sid)
  /\ DOMAIN sessions \subseteq DOMAIN sessions'
  /\ chunkCache' = chunkCache
  /\ chunkIndex' = chunkIndex
  /\ queryCache' = queryCache
  /\ storage' = storage
  /\ snapshots' = snapshots
  /\ pending' = <<>>

\* Every load, append or prepend of this step that is over a cap is rejected
\* with one of `codes` and changes nothing.
AdmissionRejects(codes) ==
  /\ (pending = <<>> /\ last'.tool = "load") =>
       \A cid \in {"main", "c2", "c3"}, text \in Texts \cup {<<"a", "b">>} :
         (OverCaps(DefaultId, cid, text) /\ LoadContextTool(NoSid, cid, text))
           => (last'.error \in codes /\ NothingChanged)
  /\ (pending = <<>> /\ last'.tool = "append") =>
       \A text \in Pieces, mode \in {"append", "prepend"}, createIfMissing \in BOOLEAN :
         (/\ "main" \in DOMAIN ContextsOf(sessions, DefaultId) \/ createIfMissing
          /\ OverCaps(DefaultId, "main", Combined(DefaultId, "main", text, mode))
          /\ AppendContextTool(NoSid, "main", text, mode, createIfMissing))
           => (last'.error \in codes /\ NothingChanged)

C8_SessionCap == Cardinality(DOMAIN sessions) <= MAX_SESSIONS

\* C9: no step of a scavenger run or of a createSession call removes or
\* changes the `default` session, however long it has been idle.
C9_DefaultSurvives ==
  [][(DefaultId \in DOMAIN sessions /\ last'.tool \in {"scavenge", "createSession"})
       => (DefaultId \in DOMAIN sessions' /\ sessions'[DefaultId] = sessions[DefaultId])]_vars

\* The scavenger is removing an expired session while `default`, which holds a
\* context and has been idle past the timeout, stays.
C9_Witness ==
  /\ last.tool = "scavenge"
  /\ pending # <<>>
  /\ Head(pending).k = "deleteSession"
  /\ DefaultId \in DOMAIN sessions
  /\ now - sessions[DefaultId].lastActivityAt > SESSION_TIMEOUT_MS
  /\ "main" \in DOMAIN sessions[DefaultId].contexts

\* The cache entries keyed on a session.
SessionEntries(sid) ==
  [chunk |-> {i \in 1..Len(chunkCache.cache) : HasSessionPrefix(chunkCache.cache[i].key, sid)},
   index |-> {i \in 1..Len(chunkIndex) : HasSessionPrefix(chunkIndex[i].key, sid)},
   query |-> {e \in queryCache : e.key.sid = sid}]

\* C10: in every state, also between the steps of a removal, each entry of the
\* chunk cache, of the index and of the query cache is keyed on a session that
\* is in the session table; and when a removal (TTL expiry, cap eviction,
\* explicit deletion) stands before taking the session out of the table, no
\* entry keyed on that session is left.
C10_CachesOfLiveSessions ==
  /\ \A i \in 1..Len(chunkCache.cache) : chunkCache.cache[i].key[1] \in DOMAIN sessions
  /\ \A i \in 1..Len(chunkIndex) : chunkIndex[i].key[1] \in DOMAIN sessions
  /\ \A e \in queryCache : e.key.sid \in DOMAIN sessions
  /\ (pending # <<>> /\ Head(pending).k = "deleteSession")
       => /\ SessionEntries(Head(pending).sid).chunk = {}
          /\ SessionEntries(Head(pending).sid).index = {}
          /\ SessionEntries(Head(pending).sid).query = {}

\* The scavenger starts to remove a session that has entries in all three caches.
C10_Witness ==
  /\ last.tool = "scavenge"
  /\ pending # <<>>
  /\ Head(pending).k = "chunkInvalidateSession"
  /\ SessionEntries(Head(pending).sid).chunk # {}
  /\ SessionEntries(Head(pending).sid).index # {}
  /\ SessionEntries(Head(pending).sid).query # {}


\* ---- variables and executed code
\* The session tables that differ from the current one only outside session A:
\* the other session is absent, fresh, or holds a copy of any live session.
OtherStates(A) ==
  LET B == IF A = DefaultId THEN IdPool[1] ELSE DefaultId
      values == {sessions[sid] : sid \in DOMAIN sessions} \cup {NewSession(now)}
  IN  {(A :> sessions[A])} \cup {(A :> sessions[A]) @@ (B :> v) : v \in values}

C4_ContextsReadOnly ==
  [][(pending = <<>> /\ last'.tool = "execute")
       => \A sid \in DOMAIN sessions : sessions'[sid].contexts = sessions[sid].contexts]_vars

\* C6 as stated: the estimated memory of each session's contexts and variables
\* is at most MAX_SESSION_MEMORY.
C6_SessionMemoryCap ==
  \A sid \in DOMAIN sessions : calculateSessionMemory(sessions[sid]) <= MAX_SESSION_MEMORY

\* C7 as stated: each session holds at most MAX_VARIABLES_PER_SESSION variables.
C7_VariableCap ==
  \A sid \in DOMAIN sessions :
    Cardinality(DOMAIN sessions[sid].variables) <= MAX_VARIABLES_PER_SESSION


\* ---- eviction at the cap
NonDefault(ss) == DOMAIN ss \ {DefaultId}

StepsOfKind(steps, k) == SelectSeq(steps, LAMBDA st : st.k = k)

\* The step is the start of a createSession call.
CreateStarts == pending = <<>> /\ pending' # <<>> /\ last'.tool = "createSession"

\* C11: a createSession call made with the table at the cap removes exactly one
\* session before it inserts the new one: a non-default session whose last
\* activity is the oldest, where every lookup of a session by a tool call
\* refreshes that session's last activity. Below the cap it removes none.
C11_CapEviction ==
  [][/\ CreateStarts =>
          LET removed == StepsOfKind(pending', "deleteSession")
              atCap == Cardinality(DOMAIN sessions) >= MAX_SESSIONS
          IN  /\ pending'[Len(pending')].k = "insertSession"
              /\ pending'[Len(pending')].sid \notin DOMAIN sessions
              /\ Len(StepsOfKind(pending', "insertSession")) = 1
              /\ ~atCap => removed = <<>>
              /\ atCap =>
                   /\ Len(removed) = 1
                   /\ removed[1].sid \in NonDefault(sessions)
                   /\ \A w \in NonDefault(sessions) :
                        sessions[removed[1].sid].lastActivityAt
                          <= sessions[w].lastActivityAt
     /\ (pending # <<>> /\ Head(pending).k = "deleteSession") =>
          DOMAIN sessions' = DOMAIN sessions \ {Head(pending).sid}
     /\ (pending # <<>> /\ Head(pending).k = "insertSession") =>
          DOMAIN sessions' = DOMAIN sessions \cup {Head(pending).sid}
     /\ (pending = <<>> /\ last'.tool \in {"getVariable", "setVariable"}) =>
          \A sidArg \in EvictArgs :
            (GetVariableTool(sidArg, "x") \/ SetVariableTool(sidArg, "x", Num)) =>
              LET sid == IF sidArg = NoSid THEN DefaultId ELSE sidArg
              IN  sid \in DOMAIN sessions => sessions'[sid].lastActivityAt = now
    ]_vars

\* The third creation evicted the session created second, because the one
\* created first had been looked up since.
C11_Witness ==
  /\ pending = <<>>
  /\ last.tool = "createSession"
  /\ DOMAIN sessions = {IdPool[1], IdPool[3]}
  /\ sessions[IdPool[1]].lastActivityAt > 0


\* ---- the scavenger
Idle_ms(sid) == now - sessions[sid].lastActivityAt

\* A scavenger run removes exactly the non-default sessions idle for more than
\* the TTL, and a session that leaves the table during the run is one of them.
ScavengerRemovesExpired ==
  /\ Scavenge =>
       {st.sid : st \in {pending'[i] : i \in { j \in 1..Len(pending') :
                                               pending'[j].k = "deleteSession"}}}
         = {sid \in NonDefault(sessions) : Idle_ms(sid) > SESSION_TIMEOUT_MS}
  /\ last.tool = "scavenge" =>
       \A sid \in DOMAIN sessions \ DOMAIN sessions' :
         sid # DefaultId /\ Idle_ms(sid) > SESSION_TIMEOUT_MS

\* A live non-default session last active at t that can outlive its TTL
\* within the modelled clock.
IdleSince(sid, t) ==
  /\ sid \in DOMAIN sessions
  /\ sessions[sid].lastActivityAt = t
  /\ t + SESSION_TIMEOUT_MS < MaxTime

\* C12: a scavenger run removes exactly the non-default sessions whose last
\* activity is more than SESSION_TIMEOUT_MS in the past, so a session accessed
\* within the TTL is never removed by it; and a non-default session that is not
\* accessed again is eventually removed.
C12_ScavengerTtl ==
  /\ [][ScavengerRemovesExpired]_vars
  /\ \A sid \in {IdPool[i] : i \in 1..MaxTableIds}, t \in 0..MaxTime :
       IdleSince(sid, t) ~>
         (sid \notin DOMAIN sessions \/ sessions[sid].lastActivityAt # t)

\* A scavenger run has removed the first created session and kept the second,
\* in a table that never reached the cap.
C12_Witness ==
  /\ pending = <<>>
  /\ last.tool = "scavenge"
  /\ nextId = MaxTableIds
  /\ DOMAIN sessions = {IdPool[2]}


\* ---- reads after writes
\* C13 as stated: after rlm_set_variable(x, v, session_id = s) returned success,
\* a following rlm_get_variable(x, session_id = s), with no other call in
\* between, returns v, for every session_id value s.
C13_ReadYourWrites ==
  [][(/\ pending = <<>>
      /\ last.tool = "setVariable"
      /\ last.error = ""
      /\ last.result.name = "x"
      /\ last'.tool = "getVariable")
       => \A sidArg \in EvictArgs :
            (last.result.sidArg = sidArg /\ GetVariableTool(sidArg, "x"))
              => last'.result = [found |-> TRUE, value |-> Num]]_vars


\* ---- idempotence of load
RECURSIVE ApplyAll(_, _)
ApplyAll(st, steps) ==
  IF steps = <<>> THEN st ELSE ApplyAll(ApplyStep(st, Head(steps)), Tail(steps))

\* The session table once the load that this step starts has run to its end.
AfterLoad == ApplyAll([Stores EXCEPT !.sessions = sessions'], pending').sessions

\* C14 as stated: when load(id, t) succeeds, the same load made again right
\* after it succeeds too and leaves the context with the same content and
\* metadata.
C14_LoadIdempotent ==
  [][(pending = <<>> /\ last'.tool = "load" /\ last'.error = "")
       => \A cid \in {"main", "c2", "c3"}, text \in Texts \cup {<<"a", "b">>} :
            LoadContextTool(NoSid, cid, text)
              => LET again == loadContext(AfterLoad, DefaultId, cid, text, now, config)
                     final == ApplyAll([Stores EXCEPT !.sessions = again.ss],
                                       again.steps).sessions
                 IN  /\ again.error = ""
                     /\ final[DefaultId].contexts[cid].content
                          = AfterLoad[DefaultId].contexts[cid].content
                     /\ final[DefaultId].contexts[cid].metadata
                          = AfterLoad[DefaultId].contexts[cid].metadata]_vars


\* ---- append and prepend
\* The context item a step sequence publishes.
Published(steps) == StepsOfKind(steps, "publish")[1].item

\* C15: an append to an existing context leaves content = old + new (append) or
\* new + old (prepend), metadata equal to a fresh analysis of the combined text
\* and the creation time it had, which is the content and metadata that a load
\* of the combined text publishes; with create_if_missing = false an append to
\* a missing context fails with CONTEXT_NOT_FOUND and changes nothing.
C15_AppendCombines ==
  [][(pending = <<>> /\ last'.tool = "append")
       => \A text \in Pieces, mode \in {"append", "prepend"}, createIfMissing \in BOOLEAN :
            AppendContextTool(NoSid, "main", text, mode, createIfMissing)
              => IF "main" \in DOMAIN ContextsOf(sessions, DefaultId)
                 THEN last'.error = "" =>
                        LET old == sessions[DefaultId].contexts["main"]
                            both == IF mode = "prepend" THEN text \o old.content
                                    ELSE old.content \o text
                            after == AfterLoad[DefaultId].contexts["main"]
                            ld == loadContext(sessions, DefaultId, "main", both, now, config)
                        IN  /\ after.content = both
                            /\ after.metadata = analyzeContent(both)
                            /\ after.createdAt = old.createdAt
                            /\ ld.error = "" =>
                                 /\ Published(ld.steps).content = after.content
                                 /\ Published(ld.steps).metadata = after.metadata
                 ELSE ~createIfMissing =>
                        /\ last'.error = "CONTEXT_NOT_FOUND"
                        /\ NothingChanged]_vars

\* A prepend has run to its end on a context created before the clock moved.
C15_Witness ==
  /\ pending = <<>>
  /\ last.tool = "append"
  /\ last.error = ""
  /\ now > 0
  /\ "main" \in DOMAIN ContextsOf(sessions, DefaultId)
  /\ sessions[DefaultId].contexts["main"].content = <<"b", "a">>
  /\ sessions[DefaultId].contexts["main"].createdAt < now


\* ---- prior decompositions
\* The records of the default session, as the handler finds them.
Records == SessionFound(DefaultId).decompositions

RecordIds(S) == {rec.id : rec \in S}

\* The record created last among S: ids are handed out in creation order.
LatestOf(S) == CHOOSE rec \in S : \A other \in S : other.id <= rec.id

RecordsOf(cid) == {Records[i] : i \in {j \in 1..Len(Records) : Records[j].contextId = cid}}

AllRecords == {Records[i] : i \in 1..Len(Records)}

\* The reply of a call that resolved to the record rec.
UsesRecord(rec, idField) ==
  IF rec.contextId \in DOMAIN ContextsOf(sessions, DefaultId)
  THEN /\ last'.error = ""
       /\ last'.result.cid = rec.contextId
       /\ last'.result.strategy = rec.strategy
       /\ last'.result.options = rec.options
       /\ last'.result[idField] = rec.id
  ELSE last'.error = "CONTEXT_NOT_FOUND"

\* What the resolution of a call must give.
ResolvesAsStated(cid, decomposeId, useLast, idField) ==
  IF decomposeId # 0
  THEN IF decomposeId \notin RecordIds(AllRecords) THEN last'.error = "INVALID_INPUT"
       ELSE LET rec == CHOOSE x \in AllRecords : x.id = decomposeId
            IN  IF cid # rec.contextId /\ cid # "main"
                THEN last'.error = "INVALID_INPUT"
                ELSE UsesRecord(rec, idField)
  ELSE IF ~useLast THEN TRUE
  ELSE IF cid \in DOMAIN ContextsOf(sessions, DefaultId)
  THEN RecordsOf(cid) # {} => UsesRecord(LatestOf(RecordsOf(cid)), idField)
  ELSE AllRecords # {} => UsesRecord(LatestOf(AllRecords), idField)

\* C16 as stated: with decompose_id the stored record's context, strategy and
\* options are used, and the call fails with INVALID_INPUT for an id unknown in
\* the session or a context_id that differs from the record's and is not
\* `main`; with use_last_decompose an existing context resolves to its own last
\* record and a missing context to the session's most recently created record.
C16_PriorDecomposition ==
  [][(pending = <<>> /\ last'.tool \in {"getChunks", "rank"})
       => \A cid \in {"main", "c2", "c3"}, lookup \in Lookups :
            /\ GetChunksVia(NoSid, cid, "fixed_size", GivenOptions, RequestedIndices,
                            lookup.decomposeId, lookup.useLast)
                 => ResolvesAsStated(cid, lookup.decomposeId, lookup.useLast,
                                     "decompose_id")
            /\ RankChunksVia(NoSid, cid, "fixed_size", GivenOptions, <<"a">>,
                             lookup.decomposeId, lookup.useLast)
                 => ResolvesAsStated(cid, lookup.decomposeId, lookup.useLast,
                                     "resolvedDecomposeId")]_vars


\* ---- the execution history
HistoryOf(ss, sid) == IF sid \in DOMAIN ss THEN ss[sid].executionHistory ELSE <<>>

\* The last n elements of a sequence (all of them when it has fewer).
LastN(seq, n) == SubSeq(seq, IF Len(seq) > n THEN Len(seq) - n + 1 ELSE 1, Len(seq))

\* An rlm_execute_code call of `code` is the step taken.
Executes(code) == \E sidArg \in HistoryArgs : ExecuteCodeTool(sidArg, code)

FailingPrograms == {"setThrow", "spin", "throwEmpty", "broken"}

\* What is stated of an execution of code that fails: the reply is a successful
\* RPC with success = false, its record has an error (the timeout marker for a
\* timeout), no output and a duration, and is the newest record of the history.
FailureRecorded(code) ==
  LET sid == last'.result.sid
      record == last'.result.record
  IN  /\ last'.error = ""
      /\ last'.result.success = FALSE
      /\ record.error # Undefined
      /\ code = "spin" => record.error = Str("Execution timeout (30000ms)")
      /\ record.output = <<>>
      /\ record.durationMs \in Nat
      /\ last'.result.error = record.error
      /\ sid \in DOMAIN sessions'
      /\ HistoryOf(sessions', sid) # <<>>
      /\ HistoryOf(sessions', sid)[Len(HistoryOf(sessions', sid))] = record

\* C18 as stated: every execution of failing code is recorded and answered
\* with success = false, and the next call is accepted as any other.
C18_FailureRecorded ==
  [][\A code \in FailingPrograms :
       Executes(code) => FailureRecorded(code) /\ pending' = <<>>]_vars

\* The same for the failing programs whose thrown value has a non-empty message.
NonEmptyFailuresRecorded ==
  [][\A code \in FailingPrograms \ {"throwEmpty"} :
       Executes(code) => FailureRecorded(code) /\ pending' = <<>>]_vars


\* ---- regular expressions
\* The patterns of the model that have a declared ReDoS shape.
RedosPatterns == {p \in Patterns : Dangerous(p)}

\* A search call or a by_regex decomposition given the pattern is the step taken.
SearchesWith(pattern) == SearchContextTool(NoSid, "main", pattern)

DecomposesWith(pattern) ==
  DecomposeContextTool(NoSid, "main", "by_regex",
                       [chunkSize |-> -1, overlap |-> -1, pattern |-> pattern])

HasContext == DefaultId \in DOMAIN sessions /\ "main" \in DOMAIN sessions[DefaultId].contexts

\* C19 as stated: a search or a by_regex decomposition of a loaded context with
\* a pattern of a declared ReDoS shape is answered with INVALID_REGEX, and the
\* pattern is neither compiled nor run against the content.
C19_RedosRejected ==
  [][\A pattern \in RedosPatterns :
       (HasContext /\ (SearchesWith(pattern) \/ DecomposesWith(pattern)))
         => LET content == sessions[DefaultId].contexts["main"].content
            IN  /\ last'.error = "INVALID_REGEX"
                /\ ~validateRegexPattern(pattern).compiled
                /\ ~searchSync(content, pattern, MAX_SEARCH_RESULTS).ran
                /\ ~decomposeByRegex(content, pattern).ran]_vars

\* The part that holds: the by_regex decomposition is refused with INVALID_REGEX,
\* and on neither path is the pattern compiled or run.
RedosNeverRun ==
  [][\A pattern \in RedosPatterns :
       /\ (HasContext /\ DecomposesWith(pattern)) => last'.error = "INVALID_REGEX"
       /\ (HasContext /\ (SearchesWith(pattern) \/ DecomposesWith(pattern)))
            => LET content == sessions[DefaultId].contexts["main"].content
               IN  /\ ~validateRegexPattern(pattern).compiled
                   /\ ~searchSync(content, pattern, MAX_SEARCH_RESULTS).ran
                   /\ ~decomposeByRegex(content, pattern).ran]_vars


\* ---- the regex helpers of the sandbox
\* The helper calls of `regexes` whose pattern has a declared ReDoS shape.
RedosCalls == {i \in 1..Len(RegexCalls) : Dangerous(RegexCalls[i].pattern)}

\* What each helper returns when it does not run its pattern.
HelperDefault(helper) ==
  CASE helper = "replace" -> Str(HelperText)
    [] helper = "test" -> [t |-> "bool", v |-> FALSE]
    [] OTHER -> [t |-> "list", v |-> <<>>]

\* C20 as stated: in a run of code that hands a pattern of a declared ReDoS
\* shape to search, findAll, replace or test, the pattern is neither compiled
\* nor run, and the helper gives its default value.
C20_HelpersRedosSafe ==
  [][Executes("regexes")
       => \A i \in RedosCalls :
            LET call == RegexCalls[i]
                helped == regexHelper(call.helper, call.pattern, HelperText)
            IN  /\ ~helped.compiled
                /\ ~helped.ran
                /\ last'.result.record.output[i] = HelperDefault(call.helper)]_vars

\* What the helpers do: a pattern that compiles is run, whatever its shape, and
\* only a pattern that does not compile gives the default.
HelpersRunWhatCompiles ==
  [][Executes("regexes")
       => /\ Len(last'.result.record.output) = Len(RegexCalls)
          /\ \A i \in 1..Len(RegexCalls) :
               LET call == RegexCalls[i]
                   helped == regexHelper(call.helper, call.pattern, HelperText)
               IN  /\ helped.compiled
                   /\ helped.ran = Compiles(call.pattern)
                   /\ ~Compiles(call.pattern)
                        => last'.result.record.output[i] = HelperDefault(call.helper)
                   /\ (call.helper = "test" /\ Compiles(call.pattern))
                        => last'.result.record.output[i] = [t |-> "bool", v |-> TRUE]]_vars


\* ---- the scan loops
\* The step is a scan call.
Scans == \E kind \in {"searchSync", "findAll", "safeRegexSearch"}, text \in ScanTexts,
            pattern \in ScanPatterns, global \in BOOLEAN, cap \in {1, 3} :
           ScanCall(kind, text, pattern, global, cap)

\* The cap of a scan: the caller's, and 1,000 for the sandbox's findAll.
CapOf(call) == IF call.kind = "findAll" THEN 1000 ELSE call.cap

Chunked == last.tool = "ContextProcessor.decompose" /\ last.result.out.ok

\* The offsets of every chunk lie in the text, in order.
OffsetsWithin(call) ==
  \A i \in 1..Len(call.out.chunks) :
    /\ 0 <= call.out.chunks[i].startOffset
    /\ call.out.chunks[i].startOffset <= call.out.chunks[i].endOffset
    /\ call.out.chunks[i].endOffset <= Len(call.text)

\* The indices are 0, 1, ..., N-1 in the order of the chunks.
IndicesInOrder(call) ==
  \A i \in 1..Len(call.out.chunks) : call.out.chunks[i].index = i - 1

\* C22: for every strategy and every text for which decompose returns chunks,
\* each chunk has 0 <= startOffset <= endOffset <= len(text) and the indices are
\* 0, 1, ..., N-1 in the order in which the chunks are returned.
C22_ChunkOffsets ==
  Chunked => OffsetsWithin(last.result) /\ IndicesInOrder(last.result)

\* The same holds for every strategy but by_regex with a pattern that has a
\* capture group, and the indices are in order there too.
OffsetsWithoutCaptures ==
  Chunked => /\ IndicesInOrder(last.result)
             /\ \/ /\ last.result.strategy = "by_regex"
                   /\ Captured(PatternOrDefault(last.result.options)) # <<>>
                \/ OffsetsWithin(last.result)


\* ---- fixed_size
\* The last step was a fixed_size call that gave chunkSize >= 1 and overlap >= 0.
FixedSizeGiven ==
  /\ last.tool = "ContextProcessor.decompose"
  /\ last.result.strategy = "fixed_size"
  /\ last.result.options.chunkSize >= 1
  /\ last.result.options.overlap >= 0

\* The raw slices [i * step, min(i * step + chunkSize, len)) for i * step < len.
StepSlices(text, chunkSize, step) ==
  [j \in 1..((Len(text) + step - 1) \div step) |->
     [index |-> j - 1,
      content |-> Slice(text, (j - 1) * step, Min((j - 1) * step + chunkSize, Len(text))),
      startOffset |-> (j - 1) * step,
      endOffset |-> Min((j - 1) * step + chunkSize, Len(text))]]

\* The outcome of a fixed_size call is that of step = chunkSize - overlap, for
\* a text under the chunk limit.
SteppedBy(call, chunkSize, overlap) ==
  IF chunkSize - overlap <= 0 THEN call.out.error = "INVALID_INPUT"
  ELSE IF Len(StepSlices(call.text, chunkSize, chunkSize - overlap)) > MAX_CHUNKS
  THEN ~call.out.ok
  ELSE call.out.ok /\ call.out.chunks = StepSlices(call.text, chunkSize, chunkSize - overlap)

\* C23: fixed_size steps by chunkSize - overlap with exactly the chunkSize >= 1
\* and overlap >= 0 given, overlap = 0 included: INVALID_INPUT if and only if
\* the step is <= 0, and otherwise chunk i is the slice
\* [i * step, min(i * step + chunkSize, len)) for every i with i * step < len.
C23_FixedSizeStep ==
  FixedSizeGiven =>
    SteppedBy(last.result, last.result.options.chunkSize, last.result.options.overlap)

\* What the code does: an overlap of 0 is replaced by DEFAULT_OVERLAP.
FixedSizeStepOrDefault ==
  FixedSizeGiven =>
    SteppedBy(last.result, last.result.options.chunkSize,
              IF last.result.options.overlap = 0 THEN DEFAULT_OVERLAP
              ELSE last.result.options.overlap)


\* ---- the contiguous strategies
\* The last step was a fixed_size or by_lines call.
Contiguous ==
  /\ last.tool = "ContextProcessor.decompose"
  /\ last.result.strategy \in {"fixed_size", "by_lines"}

\* The size the call gave is at least 1 and its overlap is 0.
ZeroOverlap(call) ==
  /\ call.options.overlap = 0
  /\ Option(call.options, IF call.strategy = "fixed_size" THEN "chunkSize"
                          ELSE "linesPerChunk") >= 1

\* The union of the ranges [startOffset, endOffset) is exactly [0, len(text)).
Covers(call) ==
  /\ \A pos \in 0..(Len(call.text) - 1) :
       \E i \in 1..Len(call.out.chunks) :
         call.out.chunks[i].startOffset <= pos /\ pos < call.out.chunks[i].endOffset
  /\ \A i \in 1..Len(call.out.chunks) :
       0 <= call.out.chunks[i].startOffset /\ call.out.chunks[i].endOffset <= Len(call.text)

\* C24: fixed_size and by_lines asked for with zero overlap succeed when the
\* text stays under the chunk limit, and the union of the chunk ranges is
\* exactly [0, len(text)).
C24_ZeroOverlapCovers ==
  Contiguous /\ ZeroOverlap(last.result)
    => \/ last.result.out.error = "CHUNK_LIMIT_EXCEEDED"
       \/ last.result.out.ok /\ Covers(last.result)

\* What holds: by_lines fails only at the chunk limit, and whatever either
\* strategy returns covers the text, with any overlap.
ReturnedChunksCover ==
  Contiguous => /\ last.result.strategy = "by_lines"
                     => last.result.out.ok \/ last.result.out.error = "CHUNK_LIMIT_EXCEEDED"
                /\ last.result.out.ok => Covers(last.result)


\* ---- the chunk limit
\* The entries of a chunk cache, as a set.
EntriesOf(cc) == {cc.cache[i] : i \in 1..Len(cc.cache)}

\* The number of lines of a text.
LineCountOf(text) == Cardinality({i \in 1..Len(text) : text[i] = "\n"}) + 1

C26_CacheBounds ==
  /\ Len(chunkCache.cache) <= CACHE_MAX_ENTRIES
  /\ chunkCache.totalSizeBytes <= CACHE_MAX_SIZE_BYTES

\* What holds: the entry bound, one entry per key, a byte total that is the
\* sum of the entries, and the byte bound unless the entry set last is by
\* itself larger than maxSizeBytes, which is then the only entry.
CacheBoundsButOversized ==
  /\ Len(chunkCache.cache) <= CACHE_MAX_ENTRIES
  /\ \A i, j \in 1..Len(chunkCache.cache) :
       chunkCache.cache[i].key = chunkCache.cache[j].key => i = j
  /\ chunkCache.totalSizeBytes = SumSizes(chunkCache.cache)
  /\ \/ chunkCache.totalSizeBytes <= CACHE_MAX_SIZE_BYTES
     \/ /\ Len(chunkCache.cache) = 1
        /\ chunkCache.cache[1].chunks = last.result


\* ---- the index cache
\* The keys of an index cache, as a set.
KeysOf(cache) == {cache[i].key : i \in 1..Len(cache)}

\* C27: the index cache holds one entry per key and at most MAX_ENTRIES entries;
\* an entry that leaves at the ceiling is one accessed least recently; and
\* getOrBuildIndex returns, and keeps under the key, an entry whose content hash
\* is the hash of the content passed, rebuilt when the stored hash differed.
C27_IndexCache ==
  /\ Len(chunkIndex) <= INDEX_MAX_ENTRIES
  /\ \A i, j \in 1..Len(chunkIndex) : chunkIndex[i].key = chunkIndex[j].key => i = j
  /\ last.tool = "getOrBuildIndex" =>
       /\ last.result.entry.contentHash = hashContent(last.result.content)
       /\ \E i \in 1..Len(chunkIndex) :
            /\ chunkIndex[i].key = last.result.entry.key
            /\ chunkIndex[i].contentHash = hashContent(last.result.content)
       /\ \A i \in 1..Len(last.result.before) :
            last.result.before[i].key \notin KeysOf(chunkIndex) =>
              /\ Len(last.result.before) = INDEX_MAX_ENTRIES
              /\ \A j \in 1..Len(last.result.before) :
                   last.result.before[i].lastAccessedAt
                     <= last.result.before[j].lastAccessedAt

\* A call at the ceiling for a key that was not stored: an entry left.
C27_Witness ==
  /\ last.tool = "getOrBuildIndex"
  /\ Len(last.result.before) = INDEX_MAX_ENTRIES
  /\ last.result.entry.key \notin KeysOf(last.result.before)
  /\ \E i, j \in 1..INDEX_MAX_ENTRIES :
       /\ last.result.before[i].lastAccessedAt < last.result.before[j].lastAccessedAt
       /\ last.result.before[i].key \notin KeysOf(chunkIndex)

\* A call that met a stored entry with another content hash and rebuilt it.
StaleIndexRebuilt ==
  /\ last.tool = "getOrBuildIndex"
  /\ \E i \in 1..Len(last.result.before) :
       /\ last.result.before[i].key = last.result.entry.key
       /\ last.result.before[i].contentHash # last.result.entry.contentHash


\* ---- ranking
\* The score of chunk i (from 0) of a rank call.
ScoreOf(call, i) ==
  ScoreSum(buildIndex(<<>>, ChunksOf(call.contents), 0), tokenizeText(call.query), 1, i)

\* Chunk i of a rank call scores more than 0 and at least the minScore given.
Eligible(call, i) ==
  ScoreOf(call, i) > 0 /\ (call.minScore # -1 => ScoreOf(call, i) >= call.minScore)

\* C28: rank returns at most top_k results in non-increasing score order, each
\* with its score, each scoring > 0 and at least min_score; they are the best:
\* as many as top_k and the chunks that qualify allow, and no chunk left out
\* scores more than one returned; a chunk with none of the query terms is never
\* returned.
C28_RankTopK ==
  last.tool = "ChunkIndex.rank" =>
    LET call == last.result
        out == call.out
        returned == {out[n].index : n \in 1..Len(out)}
        eligible == {i \in 0..(Len(call.contents) - 1) : Eligible(call, i)}
    IN  /\ Len(out) = Min(call.topK, Cardinality(eligible))
        /\ Cardinality(returned) = Len(out)
        /\ returned \subseteq eligible
        /\ \A n \in 1..Len(out) : out[n].score = ScoreOf(call, out[n].index)
        /\ \A n \in 1..(Len(out) - 1) : out[n].score >= out[n + 1].score
        /\ \A i \in eligible \ returned, n \in 1..Len(out) : ScoreOf(call, i) <= out[n].score
        /\ \A i \in returned :
             TermSet(tokenizeText(call.contents[i + 1])) \cap TermSet(tokenizeText(call.query))
               # {}

\* 'the cat sat', 'dogs bark', 'the cat and the cat' asked for 'cat', with a for
\* cat and b for every other word: chunk 2, then chunk 0, and no chunk 1.
C28_Witness ==
  /\ last.tool = "ChunkIndex.rank"
  /\ last.result.contents = <<<<"b", " ", "a", " ", "b">>, <<"b", "b">>,
                              <<"b", " ", "a", " ", "b", " ", "b", " ", "a">>>>
  /\ last.result.query = <<"a">>
  /\ last.result.topK = 3
  /\ last.result.minScore = -1
  /\ Len(last.result.out) = 2
  /\ last.result.out[1].index = 2
  /\ last.result.out[2].index = 0


\* ---- adding a chunk without a query term
\* The last step ranked a chunk list and the list with a chunk added that holds
\* no term of the query.
DisjointAdded ==
  /\ last.tool = "ChunkIndex.rank twice"
  /\ TermSet(tokenizeText(last.result.added)) \cap TermSet(tokenizeText(last.result.query))
       = {}

\* The position of chunk i in a rank result, 0 if it is not there.
PositionIn(out, i) ==
  IF \E n \in 1..Len(out) : out[n].index = i
  THEN CHOOSE n \in 1..Len(out) : out[n].index = i
  ELSE 0

\* C29: adding a chunk whose terms are disjoint from the query terms does not
\* change the relative order of the chunks that were in the top K before, and
\* the added chunk is not in the result.
C29_DisjointChunkKeepsOrder ==
  DisjointAdded =>
    /\ PositionIn(last.result.after, Len(last.result.contents)) = 0
    /\ \A m, n \in 1..Len(last.result.before) :
         (/\ m < n
          /\ PositionIn(last.result.after, last.result.before[m].index) # 0
          /\ PositionIn(last.result.after, last.result.before[n].index) # 0)
           => PositionIn(last.result.after, last.result.before[m].index)
                < PositionIn(last.result.after, last.result.before[n].index)

\* What holds: the added chunk is not in the result, and with a top K that
\* takes every chunk the same chunks are returned as before.
DisjointChunkAbsent ==
  DisjointAdded =>
    /\ PositionIn(last.result.after, Len(last.result.contents)) = 0
    /\ last.result.topK >= Len(last.result.contents) =>
         {last.result.after[n].index : n \in 1..Len(last.result.after)}
           = {last.result.before[n].index : n \in 1..Len(last.result.before)}

\* ---- identifiers
\* The rule of a context id: 1 to 100 characters of [A-Za-z0-9_-].
ContextIdRule(id) ==
  /\ Len(id) \in 1..100
  /\ \A i \in 1..Len(id) : CharAt(id, i) \in Letters \cup Digits \cup {"_", "-"}

\* The rule of a variable name: 1 to 100 characters, [A-Za-z_][A-Za-z0-9_]*,
\* and none of the reserved names.
VariableNameRule(name) ==
  /\ Len(name) \in 1..100
  /\ CharAt(name, 1) \in Letters \cup {"_"}
  /\ \A i \in 2..Len(name) : CharAt(name, i) \in Letters \cup Digits \cup {"_"}
  /\ name \notin {"__proto__", "constructor", "prototype"}

\* Everything a session holds, and everything kept beside the sessions.
SessionState == <<sessions, pending, storage, snapshots, chunkCache, chunkIndex,
                  queryCache, nextId, nextDecomp>>

\* C30: a loadContext or appendContext whose context id breaks the id rule and
\* a setVariable whose name breaks the name rule fail with INVALID_INPUT and
\* leave the sessions and everything kept beside them as they were; every
\* context id and every variable name stored in a session keeps its rule.
C30_InvalidNamesRejected ==
  [][/\ (last'.tool \in {"SessionManager.loadContext", "SessionManager.appendContext"}
          /\ ~ContextIdRule(last'.result.contextId))
          => (last'.error = "INVALID_INPUT" /\ UNCHANGED SessionState)
     /\ (last'.tool = "setVariable" /\ ~VariableNameRule(last'.result.name))
          => (last'.error = "INVALID_INPUT" /\ UNCHANGED SessionState)
     /\ \A sid \in DOMAIN sessions' :
          /\ \A id \in DOMAIN sessions'[sid].contexts : ContextIdRule(id)
          /\ \A name \in DOMAIN sessions'[sid].variables : VariableNameRule(name)]_vars

\* An append with an id one character too long was refused while the session
\* held a context under the longest id allowed and a variable beside `answer`.
C30_Witness ==
  /\ last.tool = "SessionManager.appendContext"
  /\ last.result.contextId = Id100 \o "a"
  /\ last.error = "INVALID_INPUT"
  /\ DefaultId \in DOMAIN sessions
  /\ Id100 \in DOMAIN sessions[DefaultId].contexts
  /\ "_v1" \in DOMAIN sessions[DefaultId].variables

\* ---- unload without persistence
\* The contexts of the default session, <<>> before the session exists.
DefaultContexts(ss) == IF DefaultId \in DOMAIN ss THEN ss[DefaultId].contexts ELSE <<>>

\* C31: with persistence disabled, a rlm_unload_context of a loaded context
\* raises no error and changes nothing: the context stays loaded and no cache
\* entry is dropped.
C31_UnloadInert ==
  [][(last'.tool = "unload" /\ last' # last /\ ~config.storage
      /\ "main" \in DOMAIN DefaultContexts(sessions))
       => /\ last'.error = ""
          /\ DefaultContexts(sessions') = DefaultContexts(sessions)
          /\ pending' = <<>>
          /\ UNCHANGED <<chunkCache, chunkIndex, queryCache>>]_vars

\* What does hold with persistence disabled: the unload is refused, the
\* context stays loaded and no cache entry is dropped.
UnloadRefusedKeepsContext ==
  [][(last'.tool = "unload" /\ last' # last /\ ~config.storage
      /\ "main" \in DOMAIN DefaultContexts(sessions))
       => /\ last'.error = "INVALID_INPUT"
          /\ DefaultContexts(sessions') = DefaultContexts(sessions)
          /\ pending' = <<>>
          /\ UNCHANGED <<chunkCache, chunkIndex, queryCache>>]_vars

\* ---- the error envelope
\* {error: true, code, message, details?, timestamp, traceId?}
EnvelopeShape(e) ==
  /\ {"error", "code", "message", "timestamp"} \subseteq DOMAIN e
  /\ DOMAIN e \subseteq {"error", "code", "message", "details", "timestamp", "traceId"}
  /\ e.error

\* The details carry no stack trace, and with it no path of the installation.
NoStack(e) == "details" \in DOMAIN e => "stack" \notin DOMAIN e.details

\* C32: every failure reply is the error envelope and neither its message nor
\* its details carry a stack trace or an internal path, for the errors the
\* handlers raise themselves and for an exception that is not an RLMError.
C32_ErrorEnvelope ==
  /\ \A f \in DOMAIN Errors :
       LET e == toJSON(fromError(Errors[f], TraceId), now)
       IN  EnvelopeShape(e) /\ NoStack(e)
  /\ (last.tool = "getVariable" /\ last.error # "")
       => (EnvelopeShape(last.result) /\ NoStack(last.result))

\* What does hold: every failure reply has the shape of the envelope, and the
\* errors the handlers raise themselves carry their own details only.
EnvelopeShapeKept ==
  /\ \A f \in DOMAIN Errors :
       LET e == toJSON(fromError(Errors[f], TraceId), now)
       IN  EnvelopeShape(e) /\ NoStack(e)
  /\ (last.tool = "getVariable" /\ last.error # "")
       => (EnvelopeShape(last.result) /\ last.error = "INTERNAL_ERROR")

\* ---- clearing a session
\* The session holds nothing but the initial answer, and no cache holds an
\* entry of it.
Cleared(ss, cc, ix, qc, sid) ==
  /\ ss[sid].contexts = <<>>
  /\ ss[sid].executionHistory = <<>>
  /\ ss[sid].decompositions = <<>>
  /\ ss[sid].lastDecomposeByContext = <<>>
  /\ ss[sid].variables = ("answer" :> [t |-> "ans", content |-> <<>>, ready |-> FALSE])
  /\ \A i \in 1..Len(cc.cache) : cc.cache[i].key[1] # sid
  /\ \A i \in 1..Len(ix) : ix[i].key[1] # sid
  /\ \A e \in qc : e.key.sid # sid

\* The entries of an ordered cache that are keyed on another session.
EntriesOfOthers(cache, sid) == SelectSeq(cache, LAMBDA e : e.key[1] # sid)

\* C33: once a rlm_clear_session of an existing session has finished, the
\* session holds no context, no execution history, no decomposition record
\* and no last-decomposition pointer, its variables are the initial answer
\* alone and no cache holds an entry of it; no step of the clearing changes
\* another session or a cache entry of another session; and clearing a session that is already in this state
\* changes nothing.
C33_ClearSession ==
  [][last'.tool = "clearSession" /\ last'.result.session_id \in DOMAIN sessions
     => LET sid == last'.result.session_id
        IN  /\ pending' = <<>> => Cleared(sessions', chunkCache', chunkIndex', queryCache', sid)
            /\ \A other \in DOMAIN sessions \ {sid} :
                 other \in DOMAIN sessions' /\ sessions'[other] = sessions[other]
            /\ EntriesOfOthers(chunkCache'.cache, sid) = EntriesOfOthers(chunkCache.cache, sid)
            /\ EntriesOfOthers(chunkIndex', sid) = EntriesOfOthers(chunkIndex, sid)
            /\ {e \in queryCache' : e.key.sid # sid} = {e \in queryCache : e.key.sid # sid}
            /\ (last.tool = "clearSession" /\ last.result = last'.result /\ pending = <<>>)
                 => UNCHANGED <<sessions, chunkCache, chunkIndex, queryCache>>]_vars

\* The created session was cleared after it had been given a context and a
\* decomposition, while the default session keeps its context, its
\* decomposition and its cache entries.
C33_Witness ==
  /\ last.tool = "clearSession"
  /\ last.result.session_id = IdPool[1]
  /\ pending = <<>>
  /\ nextDecomp = 2
  /\ DefaultId \in DOMAIN sessions
  /\ Len(sessions[DefaultId].decompositions) = 1
  /\ "main" \in DOMAIN sessions[DefaultId].contexts
  /\ chunkCache.cache # <<>>
  /\ chunkIndex # <<>>

\* ---- calls under an id that names no session
\* C34: a rlm_set_variable whose session_id names no live session leaves the
\* variables, the answer and the execution history of every existing session
\* as they were.
C34_UnknownSessionIsolated ==
  [][(last'.tool = "setVariable" /\ last' # last
      /\ last'.result.sidArg \notin DOMAIN sessions \cup {NoSid})
       => \A sid \in DOMAIN sessions :
            /\ sessions'[sid].variables = sessions[sid].variables
            /\ sessions'[sid].executionHistory = sessions[sid].executionHistory]_vars

\* ---- the answer
\* C35: every live session has a variable `answer` whose value is a record
\* {content, ready}.
C35_AnswerWellFormed ==
  \A sid \in DOMAIN sessions :
    /\ "answer" \in DOMAIN sessions[sid].variables
    /\ sessions[sid].variables["answer"].t = "ans"

\* What does hold: rlm_set_answer itself always leaves a well-formed answer.
SetAnswerWellFormed ==
  last.tool = "setAnswer" /\ last.error = ""
    => /\ "answer" \in DOMAIN sessions[DefaultId].variables
       /\ sessions[DefaultId].variables["answer"].t = "ans"

\* ---- invalidation by key prefix
\* The entries of an ordered cache that are not keyed on (sid, cid).
EntriesNotOf(cache, sid, cid) ==
  SelectSeq(cache, LAMBDA e : ~(e.key[1] = sid /\ e.key[2] = cid))

\* C36: while a load, an append or an unload of context c in session s runs,
\* no step changes the chunk-cache entries or the index entries that are not
\* keyed on (s, c), and its invalidation steps leave no entry keyed on (s, c)
\* in the store they clear; the start of the handler changes neither store.
C36_InvalidationExact ==
  [][last'.tool \in {"load", "append", "unload"}
     => IF pending # <<>> /\ pending' = Tail(pending)
        THEN LET step == Head(pending)
             IN  /\ EntriesNotOf(chunkCache'.cache, step.sid, step.cid)
                      = EntriesNotOf(chunkCache.cache, step.sid, step.cid)
                 /\ EntriesNotOf(chunkIndex', step.sid, step.cid)
                      = EntriesNotOf(chunkIndex, step.sid, step.cid)
                 /\ step.k = "chunkInvalidateContext"
                      => EntriesNotOf(chunkCache'.cache, step.sid, step.cid)
                           = chunkCache'.cache
                 /\ step.k = "indexInvalidateContext"
                      => EntriesNotOf(chunkIndex', step.sid, step.cid) = chunkIndex'
        ELSE UNCHANGED <<chunkCache, chunkIndex>>]_vars

\* Session `session_1_a` decomposed `doc` and `doc2` and then unloaded `doc`:
\* the cache has lost the entry of `doc` and still holds the entry of `doc2`.
C36_Witness ==
  /\ last.tool = "unload" /\ last.error = "" /\ pending = <<>>
  /\ IdPool[1] \in DOMAIN sessions
  /\ "doc" \notin DOMAIN sessions[IdPool[1]].contexts
  /\ \E i \in 1..Len(sessions[IdPool[1]].decompositions) :
       sessions[IdPool[1]].decompositions[i].contextId = "doc"
  /\ \E i \in 1..Len(chunkCache.cache) :
       chunkCache.cache[i].key[1] = IdPool[1] /\ chunkCache.cache[i].key[2] = "doc2"
  /\ \A i \in 1..Len(chunkCache.cache) : chunkCache.cache[i].key[2] # "doc"

\* ---- the chunk cache's byte counter
\* C37: after any sequence of set, get, eviction, invalidateContext,
\* invalidateSession and clear, totalSizeBytes is the sum of sizeBytes over the
\* entries in the cache, and is not negative.
C37_ByteCounterExact ==
  /\ chunkCache.totalSizeBytes = SumSizes(chunkCache.cache)
  /\ chunkCache.totalSizeBytes >= 0

\* A lookup with another content hash has dropped its entry and left the
\* other entry in the cache.
C37_Witness ==
  /\ last.tool = "ChunkCache.get"
  /\ last.result.dropped
  /\ Len(chunkCache.cache) = 1
  /\ chunkCache.totalSizeBytes > 0

\* ---- the latest decomposition
\* The record of the latest storeDecomposition call among the records that
\* satisfy `wanted`, in the order of the calls.
LatestStored(recs, wanted(_)) ==
  LET hits == SelectSeq(recs, wanted)
  IN  IF hits = <<>> THEN NoRecord ELSE hits[Len(hits)]

\* C38: in every session getMostRecentDecomposition returns the record of the
\* latest storeDecomposition call, and getLastDecomposition(c) the record of
\* the latest storeDecomposition call for context c.
C38_LatestDecomposition ==
  \A sid \in DOMAIN sessions :
    /\ getMostRecentDecomposition(sessions[sid])
         = LatestStored(sessions[sid].decompositions, LAMBDA rec : TRUE)
    /\ \A cid \in {"main", "c2", "c3"} :
         getLastDecomposition(sessions[sid], cid)
           = LatestStored(sessions[sid].decompositions, LAMBDA rec : rec.contextId = cid)

\* What does hold: the per-context half, and the session-wide half when no two
\* records share a creation time.
LatestDecompositionApart ==
  \A sid \in DOMAIN sessions :
    /\ \A cid \in {"main", "c2", "c3"} :
         getLastDecomposition(sessions[sid], cid)
           = LatestStored(sessions[sid].decompositions, LAMBDA rec : rec.contextId = cid)
    /\ (\A i, j \in 1..Len(sessions[sid].decompositions) :
          i # j => sessions[sid].decompositions[i].createdAt
                     # sessions[sid].decompositions[j].createdAt)
         => getMostRecentDecomposition(sessions[sid])
              = LatestStored(sessions[sid].decompositions, LAMBDA rec : TRUE)

\* ---- the offsets a search reports
Increasing(results) ==
  \A i \in 1..(Len(results) - 1) : results[i].index < results[i + 1].index

\* C39: the matches searchSync returns for rlm_search_context, with or without
\* the g flag, have strictly increasing offsets, so no occurrence is reported
\* twice.
C39_SearchDistinct ==
  last.tool = "scan" /\ last.result.kind = "searchSync"
    => Increasing(last.result.out.results)

\* What does hold: with the g flag the offsets are strictly increasing, and
\* without it every reported match is the first occurrence.
SearchDistinctWhenGlobal ==
  last.tool = "scan" /\ last.result.kind = "searchSync"
    => IF last.result.global THEN Increasing(last.result.out.results)
       ELSE \A i \in 1..Len(last.result.out.results) :
              last.result.out.results[i] = last.result.out.results[1]

\* ---- the HTTP concurrency limiter
\* The admitted requests whose response has emitted neither event.
InFlight == {res \in DOMAIN limiter.responses :
               limiter.responses[res].admitted /\ limiter.responses[res].emitted = {}}

\* C40: under any interleaving of arrivals and of `finish` and `close` events
\* the count is at least zero and at most the configured maximum, and it is
\* the number of admitted requests whose response has emitted no event yet:
\* an admitted request lowers it once, at its first event, and a rejected
\* request never lowers it.
C40_LimiterCount ==
  /\ limiter.active >= 0
  /\ limiter.active <= limiter.maxConcurrent
  /\ limiter.active = Cardinality(InFlight)

\* At maximum 1 the first request was admitted and its response has emitted
\* both events, the second was rejected while the first was in flight, and
\* the third is in flight.
C40_Witness ==
  /\ limiter.maxConcurrent = 1
  /\ Len(limiter.responses) = 3
  /\ limiter.responses[1] = [admitted |-> TRUE, released |-> TRUE,
                             emitted |-> {"finish", "close"}]
  /\ ~limiter.responses[2].admitted
  /\ limiter.responses[2].emitted # {}
  /\ limiter.responses[3].admitted
  /\ limiter.active = 1

====
